---- MODULE Spec2Model ----
(***************************************************************************)
(* A state-machine model of three programs of the repository:              *)
(*                                                                         *)
(*  - the agentic process-orchestrator benchmark                           *)
(*    (examples/huggingface_x_kurrent_skills/agentic_benchmark.py): the    *)
(*    VALID_FLOWS catalog, the two sequence generators, the monitor        *)
(*    (monitor_sequence / analyze_event / predict_next_event /             *)
(*    _detect_process_type) and the scoring loop and metrics of            *)
(*    run_benchmark;                                                       *)
(*  - the in-memory projection template                                    *)
(*    (kurrent_skills/templates/python/projection.py);                     *)
(*  - the dataset generator (examples/huggingface_x_kurrent_skills/src/    *)
(*    process_generator.py) as populate_process_events.py runs it.         *)
(*                                                                         *)
(* Python lists are objects with identity: `heap` maps an address to the   *)
(* list stored there, and a variable that holds a list holds its address.  *)
(* Indices kept in the state are Python's (0-based).  Strings are TLA+     *)
(* strings; where the code looks inside a string (substring tests,         *)
(* strip/split/rstrip) the model works on the string's characters, given   *)
(* by Spell.  None is the value None.                                      *)
(*                                                                         *)
(* Eleven specifications share the variables:                              *)
(*   SpecMon        monitor_sequence on every event list up to MaxLen, the *)
(*                  predictor free to answer any of RawOutputs on each     *)
(*                  call                                                   *)
(*   SpecTwice      monitor_sequence called twice on the same list with a  *)
(*                  predictor that is a function of the history            *)
(*   SpecDetect     _detect_process_type on every name of Names            *)
(*   Spec           the generators over every random draw, the caller      *)
(*                  mutating the returned list, and monitoring a normal    *)
(*                  sequence with the oracle predictor of its variant      *)
(*   SpecAny        a normal sequence monitored with any predictor that    *)
(*                  is a function of the history                           *)
(*   SpecEdited     generate_anomalous_sequence after one stored list of   *)
(*                  VALID_FLOWS has been shortened                         *)
(*   SpecBench      run_benchmark: generation, shuffle, scoring loop,      *)
(*                  metrics; draws taken from BenchNormalDraws and         *)
(*                  BenchAnomalousDraws, predictor one of BenchPredictors  *)
(*   SpecMetrics    the metric computation on every confusion matrix with  *)
(*                  counters up to MaxCount                                *)
(*   SpecProjection order_projection fed by the subscription loop with     *)
(*                  every sequence of up to MaxEvents events               *)
(*   SpecSeed       two runs that construct ProcessEventGenerator with the *)
(*                  same seed and generate a dataset, the random source of *)
(*                  each in any state before                               *)
(*   SpecDataset    generate_dataset without a seed, every draw free       *)
(***************************************************************************)
EXTENDS Integers, Sequences, FiniteSets, TLC

VARIABLES
    heap,           \* address -> list of event names (the list objects)
    ret,            \* what the last generator call returned (NoResult before)
    mutations,      \* in-place mutations the caller made to the returned list
    predictor,      \* the model behind self.pipe: [kind, flow]
    mon_pc,         \* monitor_sequence: "idle", "loop", "returned", "raised"
    mon_events,     \* monitor_sequence: address of its argument `events`
    mon_n,          \* monitor_sequence: len(events), read once by range()
    mon_i,          \* monitor_sequence: the loop variable i
    decisions,      \* monitor_sequence: the list `decisions`
    calls,          \* log of the calls made to the predictor (history, raw, output)
    earlier,        \* caller of monitor_sequence: the list as it was handed over, and
                    \* the verdict lists the calls made so far returned
    detection,      \* a call of _detect_process_type: its argument and what it returned
    pc,             \* run_benchmark: its position
    num_normal,     \* run_benchmark: argument
    num_anomalous,  \* run_benchmark: argument
    test_cases,     \* run_benchmark: the list `test_cases`
    case_idx,       \* run_benchmark: the loop variable i of the scoring loop
    results,        \* run_benchmark: the dict `results` (counters and details)
    metrics,        \* run_benchmark: results["metrics"] (NoMetrics before)
    state,          \* Projection: the dict `state` (stream name -> summary dict)
    checkpoint,     \* Projection: `checkpoint`, <<>> for None and <<p>> for the int p
    applies,        \* the calls of Projection.apply so far: the event and what it returned
    position,       \* commit position of the last event the subscription yielded
    seed,           \* argument of ProcessEventGenerator(), <<>> for None, <<s>> for s
    num_sequences,  \* argument of generate_dataset
    run_pc,         \* per run: "none" (no such run), "start", "constructed", "done"
    rng,            \* per run: the state of the process-wide random source
    all_events,     \* per run: generate_dataset's `all_events` (the event_type names)
    streams         \* per run: generate_dataset's `streams`, in insertion order

genVars   == <<ret, mutations>>
monVars   == <<mon_pc, mon_events, mon_n, mon_i, decisions, calls, earlier, detection>>
benchVars == <<pc, num_normal, num_anomalous, test_cases, case_idx, results, metrics>>
projVars  == <<state, checkpoint, applies, position>>
dataVars  == <<seed, num_sequences, run_pc, rng, all_events, streams>>
vars      == <<heap, predictor, genVars, monVars, benchVars, projVars, dataVars>>

----------------------------------------------------------------------------
(* Bounds of the model.                                                    *)

\* longest event list handed to monitor_sequence in SpecMon
MaxLen == 3
\* in-place mutations the caller makes to one returned list in Spec
MaxMutations == 2
\* largest num_normal of a run_benchmark call in SpecBench
MaxNormal == 1
\* largest num_anomalous of a run_benchmark call in SpecBench
MaxAnomalous == 1
\* largest counter of a confusion matrix in SpecMetrics
MaxCount == 8

----------------------------------------------------------------------------
(* Python values and list operations.                                      *)

None == "None"

\* Python truthiness of an Optional[str]
Truthy(x) == x # None /\ x # ""

Min(a, b) == IF a <= b THEN a ELSE b

\* list[i] for a 0-based index i within range
At(list, i) == list[i + 1]

\* list[:i] for i >= 0
Slice(list, i) == SubSeq(list, 1, Min(i, Len(list)))

\* the list after list[i] = x
SetAt(list, i, x) == [list EXCEPT ![i + 1] = x]

\* the list after list.pop(i)
PopAt(list, i) == SubSeq(list, 1, i) \o SubSeq(list, i + 2, Len(list))

\* the address list.copy() allocates: a fresh one
NewAddr(h) == CHOOSE a \in 1..(Cardinality(DOMAIN h) + 1) : a \notin DOMAIN h

\* the heap after list.copy() of the list at address a
ListCopy(h, a) == h @@ (NewAddr(h) :> h[a])

----------------------------------------------------------------------------
(* The characters of every string the model handles.                       *)

Spell ==
       "OrderSubmitted" :> <<"O", "r", "d", "e", "r", "S", "u", "b", "m", "i", "t", "t", "e", "d">>
    @@ "OrderValidated" :> <<"O", "r", "d", "e", "r", "V", "a", "l", "i", "d", "a", "t", "e", "d">>
    @@ "OrderRouted" :> <<"O", "r", "d", "e", "r", "R", "o", "u", "t", "e", "d">>
    @@ "OrderFilled" :> <<"O", "r", "d", "e", "r", "F", "i", "l", "l", "e", "d">>
    @@ "TradeBooked" :> <<"T", "r", "a", "d", "e", "B", "o", "o", "k", "e", "d">>
    @@ "TradeSettled" :> <<"T", "r", "a", "d", "e", "S", "e", "t", "t", "l", "e", "d">>
    @@ "TradeConfirmed" :> <<"T", "r", "a", "d", "e", "C", "o", "n", "f", "i", "r", "m", "e", "d">>
    @@ "OrderRejected" :> <<"O", "r", "d", "e", "r", "R", "e", "j", "e", "c", "t", "e", "d">>
    @@ "OrderCancelled" :> <<"O", "r", "d", "e", "r", "C", "a", "n", "c", "e", "l", "l", "e", "d">>
    @@ "OrderPartiallyFilled" :> <<"O", "r", "d", "e", "r", "P", "a", "r", "t", "i", "a", "l", "l", "y", "F", "i", "l", "l", "e", "d">>
    @@ "PaymentInitiated" :> <<"P", "a", "y", "m", "e", "n", "t", "I", "n", "i", "t", "i", "a", "t", "e", "d">>
    @@ "PaymentValidated" :> <<"P", "a", "y", "m", "e", "n", "t", "V", "a", "l", "i", "d", "a", "t", "e", "d">>
    @@ "PaymentPendingApproval" :> <<"P", "a", "y", "m", "e", "n", "t", "P", "e", "n", "d", "i", "n", "g", "A", "p", "p", "r", "o", "v", "a", "l">>
    @@ "PaymentApproved" :> <<"P", "a", "y", "m", "e", "n", "t", "A", "p", "p", "r", "o", "v", "e", "d">>
    @@ "PaymentExecuted" :> <<"P", "a", "y", "m", "e", "n", "t", "E", "x", "e", "c", "u", "t", "e", "d">>
    @@ "PaymentCompleted" :> <<"P", "a", "y", "m", "e", "n", "t", "C", "o", "m", "p", "l", "e", "t", "e", "d">>
    @@ "PaymentRejected" :> <<"P", "a", "y", "m", "e", "n", "t", "R", "e", "j", "e", "c", "t", "e", "d">>
    @@ "PaymentFailed" :> <<"P", "a", "y", "m", "e", "n", "t", "F", "a", "i", "l", "e", "d">>
    @@ "RiskLimitBreached" :> <<"R", "i", "s", "k", "L", "i", "m", "i", "t", "B", "r", "e", "a", "c", "h", "e", "d">>
    @@ "RiskAlertCreated" :> <<"R", "i", "s", "k", "A", "l", "e", "r", "t", "C", "r", "e", "a", "t", "e", "d">>
    @@ "RiskAlertAcknowledged" :> <<"R", "i", "s", "k", "A", "l", "e", "r", "t", "A", "c", "k", "n", "o", "w", "l", "e", "d", "g", "e", "d">>
    @@ "RiskMitigationStarted" :> <<"R", "i", "s", "k", "M", "i", "t", "i", "g", "a", "t", "i", "o", "n", "S", "t", "a", "r", "t", "e", "d">>
    @@ "RiskMitigationCompleted" :> <<"R", "i", "s", "k", "M", "i", "t", "i", "g", "a", "t", "i", "o", "n", "C", "o", "m", "p", "l", "e", "t", "e", "d">>
    @@ "RiskAlertResolved" :> <<"R", "i", "s", "k", "A", "l", "e", "r", "t", "R", "e", "s", "o", "l", "v", "e", "d">>
    @@ "ComplianceCheckTriggered" :> <<"C", "o", "m", "p", "l", "i", "a", "n", "c", "e", "C", "h", "e", "c", "k", "T", "r", "i", "g", "g", "e", "r", "e", "d">>
    @@ "ComplianceCheckPassed" :> <<"C", "o", "m", "p", "l", "i", "a", "n", "c", "e", "C", "h", "e", "c", "k", "P", "a", "s", "s", "e", "d">>
    @@ "ComplianceFlagRaised" :> <<"C", "o", "m", "p", "l", "i", "a", "n", "c", "e", "F", "l", "a", "g", "R", "a", "i", "s", "e", "d">>
    @@ "ComplianceReviewAssigned" :> <<"C", "o", "m", "p", "l", "i", "a", "n", "c", "e", "R", "e", "v", "i", "e", "w", "A", "s", "s", "i", "g", "n", "e", "d">>
    @@ "ComplianceReviewCompleted" :> <<"C", "o", "m", "p", "l", "i", "a", "n", "c", "e", "R", "e", "v", "i", "e", "w", "C", "o", "m", "p", "l", "e", "t", "e", "d">>
    @@ "ComplianceCaseClosed" :> <<"C", "o", "m", "p", "l", "i", "a", "n", "c", "e", "C", "a", "s", "e", "C", "l", "o", "s", "e", "d">>
    @@ "AccountApplicationSubmitted" :> <<"A", "c", "c", "o", "u", "n", "t", "A", "p", "p", "l", "i", "c", "a", "t", "i", "o", "n", "S", "u", "b", "m", "i", "t", "t", "e", "d">>
    @@ "AccountKYCStarted" :> <<"A", "c", "c", "o", "u", "n", "t", "K", "Y", "C", "S", "t", "a", "r", "t", "e", "d">>
    @@ "AccountDocumentReceived" :> <<"A", "c", "c", "o", "u", "n", "t", "D", "o", "c", "u", "m", "e", "n", "t", "R", "e", "c", "e", "i", "v", "e", "d">>
    @@ "AccountKYCCompleted" :> <<"A", "c", "c", "o", "u", "n", "t", "K", "Y", "C", "C", "o", "m", "p", "l", "e", "t", "e", "d">>
    @@ "AccountOpened" :> <<"A", "c", "c", "o", "u", "n", "t", "O", "p", "e", "n", "e", "d">>
    @@ "AccountFunded" :> <<"A", "c", "c", "o", "u", "n", "t", "F", "u", "n", "d", "e", "d">>
    @@ "Order" :> <<"O", "r", "d", "e", "r">>
    @@ "Trade" :> <<"T", "r", "a", "d", "e">>
    @@ "Payment" :> <<"P", "a", "y", "m", "e", "n", "t">>
    @@ "Risk" :> <<"R", "i", "s", "k">>
    @@ "Compliance" :> <<"C", "o", "m", "p", "l", "i", "a", "n", "c", "e">>
    @@ "Account" :> <<"A", "c", "c", "o", "u", "n", "t">>
    @@ "KYC" :> <<"K", "Y", "C">>
    @@ "" :> <<>>
    @@ "Heartbeat" :> <<"H", "e", "a", "r", "t", "b", "e", "a", "t">>
    @@ "ordervalidated" :> <<"o", "r", "d", "e", "r", "v", "a", "l", "i", "d", "a", "t", "e", "d">>
    @@ "KYCVerified" :> <<"K", "Y", "C", "V", "e", "r", "i", "f", "i", "e", "d">>
    @@ "PaymentOrderReceived" :> <<"P", "a", "y", "m", "e", "n", "t", "O", "r", "d", "e", "r", "R", "e", "c", "e", "i", "v", "e", "d">>
    @@ "Tampered" :> <<"T", "a", "m", "p", "e", "r", "e", "d">>
    @@ "OrderValidated." :> <<"O", "r", "d", "e", "r", "V", "a", "l", "i", "d", "a", "t", "e", "d", ".">>
    @@ " PaymentFailed\n" :> <<" ", "P", "a", "y", "m", "e", "n", "t", "F", "a", "i", "l", "e", "d", "\n">>
    @@ "Heartbeat: unsure" :> <<"H", "e", "a", "r", "t", "b", "e", "a", "t", ":", " ", "u", "n", "s", "u", "r", "e">>
    @@ " ... " :> <<" ", ".", ".", ".", " ">>
    @@ "PreKYC" :> <<"P", "r", "e", "K", "Y", "C">>
    @@ "kyc" :> <<"k", "y", "c">>
    @@ "ComplianceRiskNoted" :> <<"C", "o", "m", "p", "l", "i", "a", "n", "c", "e", "R", "i", "s", "k", "N", "o", "t", "e", "d">>

Names == DOMAIN Spell

\* the string with these characters
Unspell(cs) == CHOOSE s \in Names : Spell[s] = cs

\* a bug: str.startswith in place of `in`
StartsWith(hay, needle) ==
    Len(needle) <= Len(hay) /\ SubSeq(hay, 1, Len(needle)) = needle

\* Python's `needle in hay` on strings: needle occurs as a substring
Contains(hay, needle) ==
    \E k \in 0..(Len(hay) - Len(needle)) :
        SubSeq(hay, k + 1, k + Len(needle)) = needle

Whitespace == {" ", "\n", "\t"}

RECURSIVE LStrip(_, _)
LStrip(cs, drop) ==
    IF cs # <<>> /\ Head(cs) \in drop THEN LStrip(Tail(cs), drop) ELSE cs

RECURSIVE RStrip(_, _)
\* str.rstrip(drop)
RStrip(cs, drop) ==
    IF cs # <<>> /\ cs[Len(cs)] \in drop
    THEN RStrip(SubSeq(cs, 1, Len(cs) - 1), drop)
    ELSE cs

\* str.strip()
Strip(cs) == RStrip(LStrip(cs, Whitespace), Whitespace)

RECURSIVE TakeWord(_)
\* the longest prefix without whitespace
TakeWord(cs) ==
    IF cs = <<>> \/ Head(cs) \in Whitespace
    THEN <<>>
    ELSE <<Head(cs)>> \o TakeWord(Tail(cs))

\* str.split()[0] of a string that is not all whitespace
FirstWord(cs) == TakeWord(LStrip(cs, Whitespace))

----------------------------------------------------------------------------
(* The catalog.                                                            *)

\* list(VALID_FLOWS.keys()): the families in the dict's order
Families == <<"trade", "payment", "risk", "compliance", "account">>

\* list(VALID_FLOWS[f].keys()): the variants of each family in the dict's order
FlowNames ==
    [ trade |-> <<"normal", "rejected", "cancelled", "partial">>
    , payment |-> <<"normal", "rejected", "failed">>
    , risk |-> <<"mitigated", "accepted">>
    , compliance |-> <<"clear", "flagged">>
    , account |-> <<"opened">> ]

\* the list literals of VALID_FLOWS: what each stored list holds when the module is loaded
FlowLiteral ==
    [ trade |->
        [ normal |-> <<"OrderSubmitted", "OrderValidated", "OrderRouted", "OrderFilled", "TradeBooked", "TradeSettled", "TradeConfirmed">>
        , rejected |-> <<"OrderSubmitted", "OrderRejected">>
        , cancelled |-> <<"OrderSubmitted", "OrderValidated", "OrderRouted", "OrderCancelled">>
        , partial |-> <<"OrderSubmitted", "OrderValidated", "OrderRouted", "OrderPartiallyFilled", "OrderFilled", "TradeBooked", "TradeSettled", "TradeConfirmed">> ]
    , payment |->
        [ normal |-> <<"PaymentInitiated", "PaymentValidated", "PaymentPendingApproval", "PaymentApproved", "PaymentExecuted", "PaymentCompleted">>
        , rejected |-> <<"PaymentInitiated", "PaymentValidated", "PaymentPendingApproval", "PaymentRejected">>
        , failed |-> <<"PaymentInitiated", "PaymentValidated", "PaymentPendingApproval", "PaymentApproved", "PaymentExecuted", "PaymentFailed">> ]
    , risk |->
        [ mitigated |-> <<"RiskLimitBreached", "RiskAlertCreated", "RiskAlertAcknowledged", "RiskMitigationStarted", "RiskMitigationCompleted", "RiskAlertResolved">>
        , accepted |-> <<"RiskLimitBreached", "RiskAlertCreated", "RiskAlertAcknowledged", "RiskAlertResolved">> ]
    , compliance |->
        [ clear |-> <<"ComplianceCheckTriggered", "ComplianceCheckPassed">>
        , flagged |-> <<"ComplianceCheckTriggered", "ComplianceFlagRaised", "ComplianceReviewAssigned", "ComplianceReviewCompleted", "ComplianceCaseClosed">> ]
    , account |->
        [ opened |-> <<"AccountApplicationSubmitted", "AccountKYCStarted", "AccountDocumentReceived", "AccountKYCCompleted", "AccountOpened", "AccountFunded">> ] ]

\* the dict VALID_FLOWS: family -> variant -> the address of the stored list
VALID_FLOWS ==
    [ trade |-> [normal |-> 1, rejected |-> 2, cancelled |-> 3, partial |-> 4]
    , payment |-> [normal |-> 5, rejected |-> 6, failed |-> 7]
    , risk |-> [mitigated |-> 8, accepted |-> 9]
    , compliance |-> [clear |-> 10, flagged |-> 11]
    , account |-> [opened |-> 12] ]

SeqToSet(s) == {s[k] : k \in 1..Len(s)}

FamilySet == SeqToSet(Families)

\* the (family, variant) keys of the catalog
FlowKeys == UNION {{<<f, n>> : n \in SeqToSet(FlowNames[f])} : f \in FamilySet}

CatalogAddrs == {VALID_FLOWS[k[1]][k[2]] : k \in FlowKeys}

\* the heap once the module is loaded: the catalog's lists, nothing else
LoadedHeap ==
    [a \in CatalogAddrs |->
        LET k == CHOOSE k \in FlowKeys : VALID_FLOWS[k[1]][k[2]] = a
        IN  FlowLiteral[k[1]][k[2]]]

----------------------------------------------------------------------------
(* ProcessOrchestrator.                                                    *)

\* a bug: the entry for Trade left out of the table
TableWithoutTrade ==
    << <<"Order", "trade">>,
       <<"Payment", "payment">>,
       <<"Risk", "risk">>,
       <<"Compliance", "compliance">>,
       <<"Account", "account">>, <<"KYC", "account">> >>

\* the dict event_to_process of _detect_process_type, in its order
event_to_process ==
    << <<"Order", "trade">>, <<"Trade", "trade">>,
       <<"Payment", "payment">>,
       <<"Risk", "risk">>,
       <<"Compliance", "compliance">>,
       <<"Account", "account">>, <<"KYC", "account">> >>

RECURSIVE ScanPrefixes(_, _)
\* the for loop of _detect_process_type from entry k on
ScanPrefixes(k, event) ==
    IF k > Len(event_to_process)
    THEN None
    ELSE IF Contains(Spell[event], Spell[event_to_process[k][1]])
         THEN event_to_process[k][2]
         ELSE ScanPrefixes(k + 1, event)

detect_process_type(event) == ScanPrefixes(1, event)

\* the texts the free predictor of SpecMon may generate
RawOutputs ==
    {"OrderValidated", "OrderValidated.", " PaymentFailed\n", "Heartbeat: unsure", "", " ... "}

\* the oracle of a variant: the element that follows the history in it
NextOf(flow, history) ==
    IF Len(history) < Len(flow) THEN flow[Len(history) + 1] ELSE ""

IsPrefix(p, s) == Len(p) <= Len(s) /\ SubSeq(s, 1, Len(p)) = p

\* the catalog variants, in the catalog's order, that start with the history
RECURSIVE MatchingFlows(_, _, _)
MatchingFlows(fi, ni, history) ==
    IF fi > Len(Families) THEN <<>>
    ELSE IF ni > Len(FlowNames[Families[fi]]) THEN MatchingFlows(fi + 1, 1, history)
    ELSE LET flow == FlowLiteral[Families[fi]][FlowNames[Families[fi]][ni]]
         IN  (IF IsPrefix(history, flow) /\ Len(history) < Len(flow) THEN <<flow>> ELSE <<>>)
             \o MatchingFlows(fi, ni + 1, history)

\* a predictor that has learnt the catalog: the continuation of the first
\* variant that starts with the history, nothing when there is none
Lookup(history) ==
    LET m == MatchingFlows(1, 1, history)
    IN  IF m = <<>> THEN "" ELSE NextOf(m[1], history)

\* output[0]["generated_text"] of self.pipe: the texts the model may generate.
\* A table predictor answers from its table where the history is in it and as
\* Lookup elsewhere.
PipeOutputs(p, history) ==
    CASE p.kind = "free"   -> RawOutputs
      [] p.kind = "oracle" -> {NextOf(p.flow, history)}
      [] p.kind = "lookup" -> {Lookup(history)}
      [] p.kind = "silent" -> {""}
      [] p.kind = "table"  -> {IF history \in DOMAIN p.flow THEN p.flow[history]
                                                            ELSE Lookup(history)}

Predictor(kind, flow) == [kind |-> kind, flow |-> flow]

\* predict_next_event from the generated text on: strip, first word, rstrip
CleanPrediction(raw) ==
    LET stripped == Strip(Spell[raw])
        word     == IF stripped # <<>> THEN FirstWord(stripped) ELSE <<>>
    IN  Unspell(RStrip(word, {".", ",", ";", ":"}))

\* a bug: the comparison made on the families instead of the names
IsAnomalyByFamily(predicted, actual_event) ==
    detect_process_type(predicted) # detect_process_type(actual_event)

\* is_anomaly of analyze_event
IsAnomaly(predicted, actual_event) == predicted # actual_event

\* a bug: the test that both families are known is left out
AnomalyCategoryAnyDifference(actual_event, predicted) ==
    IF detect_process_type(actual_event) # detect_process_type(predicted)
    THEN "cross_process_contamination"
    ELSE "unexpected_transition"

\* anomaly_type of analyze_event for an anomalous event
AnomalyCategory(actual_event, predicted) ==
    LET actual_process   == detect_process_type(actual_event)
        expected_process == detect_process_type(predicted)
    IN  IF actual_process # expected_process /\ Truthy(actual_process) /\ Truthy(expected_process)
        THEN "cross_process_contamination"
        ELSE "unexpected_transition"

\* analyze_event, `raw` being the text the model generated for event_history
analyze_event(event_history, actual_event, raw) ==
    LET predicted  == CleanPrediction(raw)
        is_anomaly == IsAnomaly(predicted, actual_event)
        last_event == IF event_history # <<>> THEN event_history[Len(event_history)] ELSE "START"
        category   == AnomalyCategory(actual_event, predicted)
    IN  [ event_observed   |-> actual_event,
          event_predicted  |-> predicted,
          confidence       |-> IF ~is_anomaly THEN 88 ELSE 75,
          is_anomaly       |-> is_anomaly,
          anomaly_type     |-> IF is_anomaly THEN category ELSE None,
          explanation      |->
              IF ~is_anomaly THEN <<"matches prediction", actual_event>>
              ELSE IF category = "cross_process_contamination"
                   THEN <<"different process types are mixed",
                          detect_process_type(predicted), predicted,
                          detect_process_type(actual_event), actual_event>>
                   ELSE <<"transition is unusual", predicted, last_event, actual_event>>,
          suggested_action |->
              IF ~is_anomaly THEN <<"no action needed">>
              ELSE IF category = "cross_process_contamination"
                   THEN <<"investigate routing", actual_event>>
                   ELSE <<"review the process", actual_event>> ]

\* a bug: the loop runs until i equals the length
LoopContinuesUntilEqual(i, n) == i # n

\* range(1, len(events)): the loop runs while i is below the length read at its start
LoopContinues(i, n) == i < n

\* a bug: the history stops one event short of the transition
HistoryBefore(events, i) == Slice(events, i - 1)

\* history = events[:i]
HistoryAt(events, i) == Slice(events, i)

\* a bug: the event before the transition taken as the observed one
ActualAtPrevious(events, i) == At(events, i - 1)

\* actual = events[i]
ActualAt(events, i) == At(events, i)

\* monitor_sequence is entered with the list at address a
MonitorCall(a) ==
    /\ UNCHANGED <<earlier, detection>>
    /\ mon_pc' = "loop"
    /\ mon_events' = a
    /\ mon_n' = Len(heap[a])
    /\ mon_i' = 1
    /\ decisions' = <<>>
    /\ calls' = <<>>

\* a bug: the history cut out of the list itself (del events[i:])
ListTruncated(events, i) == Slice(events, i)

\* the list `events` after history = events[:i] and actual = events[i]: both
\* read it, the slice is a new list
ListAfterStep(events, i) == events

\* one iteration of the loop of monitor_sequence
MonitorStep ==
    /\ mon_pc = "loop"
    /\ LoopContinues(mon_i, mon_n)
    /\ LET events == heap[mon_events] IN
       IF mon_i >= Len(events)
       THEN \* events[i] raises IndexError
            /\ mon_pc' = "raised"
            /\ UNCHANGED <<heap, mon_i, decisions, calls>>
       ELSE \E raw \in PipeOutputs(predictor, HistoryAt(events, mon_i)) :
            LET history  == HistoryAt(events, mon_i)
                actual   == ActualAt(events, mon_i)
                decision == analyze_event(history, actual, raw)
            IN  /\ decisions' = Append(decisions, decision)
                /\ calls' = Append(calls, [history |-> history, raw |-> raw,
                                           output |-> CleanPrediction(raw)])
                /\ heap' = [heap EXCEPT ![mon_events] = ListAfterStep(events, mon_i)]
                /\ mon_i' = mon_i + 1
                /\ mon_pc' = mon_pc
    /\ UNCHANGED <<projVars, dataVars, predictor, mon_events, mon_n, earlier, detection, genVars, benchVars>>

\* the loop of monitor_sequence is over: return decisions
MonitorReturn ==
    /\ mon_pc = "loop"
    /\ ~LoopContinues(mon_i, mon_n)
    /\ mon_pc' = "returned"
    /\ UNCHANGED <<projVars, dataVars, heap, predictor, mon_events, mon_n, mon_i, decisions, calls,
                   earlier, detection, genVars, benchVars>>

----------------------------------------------------------------------------
(* Values of the variables a specification does not use.                   *)

NoResult == [kind |-> "none"]
NoMetrics == [kind |-> "none"]
NoCounters == [true_positives |-> 0, false_positives |-> 0,
               true_negatives |-> 0, false_negatives |-> 0, details |-> <<>>]

GenIdle == ret = NoResult /\ mutations = 0

MonIdle ==
    /\ mon_pc = "idle" /\ mon_events = 0 /\ mon_n = 0 /\ mon_i = 0
    /\ decisions = <<>> /\ calls = <<>>
    /\ earlier = NoResult /\ detection = NoResult

BenchIdle ==
    /\ pc = "idle" /\ num_normal = 0 /\ num_anomalous = 0 /\ test_cases = <<>>
    /\ case_idx = 0 /\ results = NoCounters /\ metrics = NoMetrics

\* the two runs of the dataset generator that are compared
Runs == {1, 2}

ProjIdle == state = <<>> /\ checkpoint = <<>> /\ applies = <<>> /\ position = 0

DataIdle ==
    /\ seed = <<>> /\ num_sequences = 0
    /\ run_pc = [r \in Runs |-> "none"]
    /\ rng = [r \in Runs |-> 0]
    /\ all_events = [r \in Runs |-> <<>>]
    /\ streams = [r \in Runs |-> <<>>]

----------------------------------------------------------------------------
(* SpecMon: monitor_sequence on every list of up to MaxLen events.         *)

\* the events of the lists monitored in SpecMon: two of one family, one of
\* another, and one no entry of event_to_process occurs in
MonEvents == {"OrderSubmitted", "OrderValidated", "PaymentFailed", "ordervalidated"}

BoundedSeqs(S, n) == UNION {[1..k -> S] : k \in 0..n}

InitMon ==
    /\ \E events \in BoundedSeqs(MonEvents, MaxLen) :
           heap = LoadedHeap @@ (NewAddr(LoadedHeap) :> events)
    /\ predictor = Predictor("free", <<>>)
    /\ mon_pc = "idle" /\ mon_events = NewAddr(LoadedHeap) /\ mon_n = 0 /\ mon_i = 0
    /\ decisions = <<>> /\ calls = <<>>
    /\ earlier = NoResult /\ detection = NoResult
    /\ GenIdle
    /\ ProjIdle
    /\ DataIdle
    /\ BenchIdle

\* the caller calls monitor_sequence(events)
MonCall ==
    /\ mon_pc = "idle"
    /\ MonitorCall(mon_events)
    /\ UNCHANGED <<projVars, dataVars, heap, predictor, genVars, benchVars>>

NextMon == MonCall \/ MonitorStep \/ MonitorReturn

SpecMon == InitMon /\ [][NextMon]_vars

\* the list monitor_sequence was called with
MonitoredEvents == heap[mon_events]

\* C1: for a list of n >= 1 events and any predictor, monitor_sequence returns
\* exactly n-1 verdicts, in the list's order: the k-th verdict (counted from 0)
\* has event_observed = events[k+1].
C1_OneVerdictPerTransition ==
    (mon_pc = "returned" /\ Len(MonitoredEvents) >= 1) =>
        /\ Len(decisions) = Len(MonitoredEvents) - 1
        /\ \A k \in 0..(Len(decisions) - 1) :
               At(decisions, k).event_observed = At(MonitoredEvents, k + 1)

\* monitor_sequence has returned the verdicts of a list of three different events
C1_Witness ==
    /\ mon_pc = "returned"
    /\ Len(decisions) = 2
    /\ At(MonitoredEvents, 0) # At(MonitoredEvents, 1)
    /\ At(MonitoredEvents, 1) # At(MonitoredEvents, 2)
    /\ At(MonitoredEvents, 0) # At(MonitoredEvents, 2)

\* C2: for every history, observed event and predictor output (the empty string
\* included), is_anomaly is true exactly when the string the predictor returned
\* differs from the observed string.
C2_StrictEquality ==
    /\ Len(calls) = Len(decisions)
    /\ \A k \in 0..(Len(decisions) - 1) :
           /\ At(decisions, k).event_predicted = At(calls, k).output
           /\ At(decisions, k).is_anomaly <=>
                  (At(calls, k).output # At(MonitoredEvents, k + 1))

\* one transition predicted exactly, and one where the predicted and the observed
\* name differ in case only, flagged
C2_Witness ==
    /\ Len(decisions) = 2
    /\ \E k \in 1..2 :
           /\ ~decisions[k].is_anomaly
           /\ decisions[k].event_observed = "OrderValidated"
    /\ \E k \in 1..2 :
           /\ decisions[k].is_anomaly
           /\ decisions[k].event_predicted = "OrderValidated"
           /\ decisions[k].event_observed = "ordervalidated"

\* whether _detect_process_type knows the family of an event
Known(process) == process # None

\* C3: an anomalous verdict has category cross_process_contamination exactly when
\* the families of the observed and of the predicted event are both known and
\* differ, and unexpected_transition otherwise; a verdict that is not anomalous
\* has no category.
C3_Category ==
    \A k \in 1..Len(decisions) :
        LET d        == decisions[k]
            observed == detect_process_type(d.event_observed)
            expected == detect_process_type(d.event_predicted)
            foreign  == Known(observed) /\ Known(expected) /\ observed # expected
        IN  /\ (d.is_anomaly /\ foreign) => d.anomaly_type = "cross_process_contamination"
            /\ (d.is_anomaly /\ ~foreign) => d.anomaly_type = "unexpected_transition"
            /\ ~d.is_anomaly => d.anomaly_type = None

\* a contamination verdict (payment event, trade event predicted) and an anomalous
\* verdict where only one family is known
C3_Witness ==
    /\ Len(decisions) = 2
    /\ \E k \in 1..2 :
           /\ decisions[k].anomaly_type = "cross_process_contamination"
           /\ decisions[k].event_observed = "PaymentFailed"
           /\ decisions[k].event_predicted = "OrderValidated"
    /\ \E k \in 1..2 :
           /\ decisions[k].anomaly_type = "unexpected_transition"
           /\ decisions[k].event_observed = "ordervalidated"
           /\ decisions[k].event_predicted = "PaymentFailed"

\* C8 as stated: monitor_sequence on an empty list fails (InvalidSequence) and
\* makes no call to the predictor.
C8_EmptyListFails ==
    (mon_pc \in {"returned", "raised"} /\ Len(MonitoredEvents) = 0) =>
        (mon_pc = "raised" /\ calls = <<>>)

\* C8 as amended: monitor_sequence on an empty list does not fail: it returns an
\* empty list of verdicts, and makes no call to the predictor.
C8_EmptyListReturnsNothing ==
    (mon_pc # "idle" /\ Len(MonitoredEvents) = 0) =>
        /\ mon_pc # "raised"
        /\ decisions = <<>>
        /\ calls = <<>>

\* monitor_sequence has returned from a call with the empty list
C8_Witness == mon_pc = "returned" /\ MonitoredEvents = <<>>

\* C20: on a list of n >= 1 events the predictor is called exactly n-1 times, the
\* call number i (from 0) with the observed prefix events[0..i] of length i+1, never
\* empty and holding no predicted event; the calls go on after an anomalous verdict.
C20_PredictorCalls ==
    /\ \A i \in 0..(Len(calls) - 1) :
           LET history == At(calls, i).history
           IN  /\ Len(history) = i + 1
               /\ \A k \in 0..i : At(history, k) = At(MonitoredEvents, k)
    /\ (mon_pc = "returned" /\ Len(MonitoredEvents) >= 1) =>
           Len(calls) = Len(MonitoredEvents) - 1

\* the predictor was called for the second transition after the first one was
\* found anomalous, with a prediction that is no event of the history it got
C20_Witness ==
    /\ mon_pc = "returned"
    /\ Len(calls) = 2
    /\ decisions[1].is_anomaly
    /\ decisions[1].event_predicted = "PaymentFailed"
    /\ calls[2].history = <<"OrderSubmitted", "OrderValidated">>

----------------------------------------------------------------------------
(* SpecTwice: a caller with a deterministic predictor has the same list    *)
(* monitored twice and keeps what the first call returned.                 *)

\* predictors that are a function of the history
DeterministicPredictors ==
    {Predictor("lookup", <<>>), Predictor("silent", <<>>),
     Predictor("oracle", FlowLiteral["trade"]["normal"])}

\* the events of the lists monitored in SpecTwice
TwiceEvents == {"OrderSubmitted", "OrderValidated", "OrderRouted", "PaymentFailed"}

InitTwice ==
    /\ \E events \in BoundedSeqs(TwiceEvents, MaxLen) :
           /\ heap = LoadedHeap @@ (NewAddr(LoadedHeap) :> events)
           /\ earlier = [input |-> events, verdicts |-> <<>>]
    /\ predictor \in DeterministicPredictors
    /\ mon_pc = "idle" /\ mon_events = NewAddr(LoadedHeap) /\ mon_n = 0 /\ mon_i = 0
    /\ decisions = <<>> /\ calls = <<>>
    /\ detection = NoResult
    /\ GenIdle
    /\ ProjIdle
    /\ DataIdle
    /\ BenchIdle

\* the caller keeps the verdicts the first call returned
CallerKeeps ==
    /\ mon_pc = "returned"
    /\ earlier.verdicts = <<>>
    /\ earlier' = [earlier EXCEPT !.verdicts = Append(@, decisions)]
    /\ mon_pc' = "idle"
    /\ UNCHANGED <<projVars, dataVars, heap, predictor, mon_events, mon_n, mon_i, decisions, calls,
                   detection, genVars, benchVars>>

NextTwice == MonCall \/ MonitorStep \/ MonitorReturn \/ CallerKeeps

SpecTwice == InitTwice /\ [][NextTwice]_vars

\* C16: with a predictor that is a function of the history, two calls of
\* monitor_sequence on the same list return equal verdict lists, and the list
\* holds during and after both calls what it held before the first.
C16_SameVerdictsTwice ==
    /\ heap[mon_events] = earlier.input
    /\ mon_pc # "raised"
    /\ (mon_pc = "returned" /\ earlier.verdicts # <<>>) =>
           decisions = earlier.verdicts[1]

\* the second call has returned, for a list of three events, one verdict that
\* is anomalous and one that is not
C16_Witness ==
    /\ mon_pc = "returned"
    /\ Len(earlier.verdicts) = 1
    /\ Len(earlier.input) = 3
    /\ Len(decisions) = 2
    /\ \E k \in 1..2 : decisions[k].is_anomaly
    /\ \E k \in 1..2 : ~decisions[k].is_anomaly

----------------------------------------------------------------------------
(* SpecDetect: _detect_process_type called with every name of Names.       *)

InitDetect ==
    /\ \E event \in Names : detection = [event |-> event, pc |-> "called", process |-> None]
    /\ heap = LoadedHeap
    /\ predictor = Predictor("none", <<>>)
    /\ mon_pc = "idle" /\ mon_events = 0 /\ mon_n = 0 /\ mon_i = 0
    /\ decisions = <<>> /\ calls = <<>>
    /\ earlier = NoResult
    /\ GenIdle
    /\ ProjIdle
    /\ DataIdle
    /\ BenchIdle

\* _detect_process_type runs on its argument and returns
DetectReturns ==
    /\ detection.pc = "called"
    /\ detection' = [detection EXCEPT !.pc = "returned",
                                      !.process = detect_process_type(detection.event)]
    /\ UNCHANGED <<projVars, dataVars, heap, predictor, mon_pc, mon_events, mon_n, mon_i, decisions, calls,
                   earlier, genVars, benchVars>>

NextDetect == DetectReturns

SpecDetect == InitDetect /\ [][NextDetect]_vars

\* the characters of needle stand somewhere in hay, one after the other
Occurs(needle, hay) ==
    \E a \in 0..Len(hay) : \E b \in a..Len(hay) : SubSeq(hay, a + 1, b) = needle

\* C17: _detect_process_type returns for every name, the empty one and those
\* holding no table entry included; it returns the family of the first of Order,
\* Trade, Payment, Risk, Compliance, Account, KYC that occurs anywhere in the
\* name, and None when none of them occurs.
C17_DetectIsTotal ==
    LET entries == <<"Order", "Trade", "Payment", "Risk", "Compliance", "Account", "KYC">>
        hits    == {k \in 1..7 : Occurs(Spell[entries[k]], Spell[detection.event])}
        first   == CHOOSE k \in hits : \A j \in hits : k <= j
    IN  /\ [k \in 1..7 |-> event_to_process[k][1]] = entries
        /\ detection.pc = "returned" =>
               detection.process = IF hits = {} THEN None ELSE event_to_process[first][2]

\* a name in which Payment stands before Order has been given the family of
\* Order, the earlier entry
C17_Witness ==
    /\ detection.pc = "returned"
    /\ detection.event = "PaymentOrderReceived"
    /\ detection.process = "trade"

\* the event names that occur in the variants of a family
EventsOf(family) ==
    UNION {SeqToSet(FlowLiteral[family][n]) : n \in SeqToSet(FlowNames[family])}

\* C26: for every family F of VALID_FLOWS and every event name of a variant of
\* F, _detect_process_type returns F; so no event name belongs to variants of two
\* families and no catalog event is left without a family.
C26_CatalogEventsDetected ==
    /\ \A F \in FamilySet :
           (detection.pc = "returned" /\ detection.event \in EventsOf(F)) =>
               detection.process = F
    /\ \A F \in FamilySet : \A G \in FamilySet \ {F} : EventsOf(F) \cap EventsOf(G) = {}
    /\ (detection.pc = "returned" /\ \E F \in FamilySet : detection.event \in EventsOf(F)) =>
           detection.process # None

\* a trade event that does not hold Order has been given the family trade
C26_Witness ==
    /\ detection.pc = "returned"
    /\ detection.event = "TradeSettled"
    /\ detection.event \in EventsOf("trade")
    /\ detection.process = "trade"


----------------------------------------------------------------------------
(* The generators.                                                         *)

\* the values of the enum AnomalyType that generate_anomalous_sequence draws from
AnomalyChoices == <<"wrong_event", "skipped_step", "out_of_order">>

\* a bug: the argument ignored, the family always drawn
AnyFamily(arg) == FamilySet

\* process_type of generate_normal_sequence: drawn when the argument is None
NormalFamilyChoices(arg) == IF arg = None THEN FamilySet ELSE {arg}

\* flows[flow_name].copy() of generate_normal_sequence: the heap after it and
\* the address of the new list
NormalSequence(h, a) == [heap |-> ListCopy(h, a), addr |-> NewAddr(h)]

\* a bug: generate_anomalous_sequence works on the stored list, not on a copy
AnomalousSequenceStored(h, a) == [heap |-> h, addr |-> a]

\* flows[flow_name].copy() of generate_anomalous_sequence
AnomalousSequence(h, a) == [heap |-> ListCopy(h, a), addr |-> NewAddr(h)]

\* no call is in progress and the caller holds no result
CallerIdle == ret = NoResult /\ mon_pc = "idle" /\ pc = "idle"

\* generate_normal_sequence(arg) with the draws process_type and flow_name
generate_normal_sequence(h, arg, process_type, flow_name) ==
    LET flows == VALID_FLOWS[process_type]
        c     == NormalSequence(h, flows[flow_name])
    IN  [ heap   |-> c.heap,
          result |-> [ kind         |-> "normal",
                       sequence     |-> c.addr,
                       process_type |-> process_type,
                       \* not returned: the argument and the draw
                       arg          |-> arg,
                       flow_name    |-> flow_name ] ]

\* the draws generate_normal_sequence(arg) can make
NormalDraws(arg) ==
    UNION {{[process_type |-> f, flow_name |-> n] : n \in SeqToSet(FlowNames[f])} :
           f \in NormalFamilyChoices(arg)}

\* the draws of generate_anomalous_sequence up to the anomaly type
AnomalousHeadDraws ==
    UNION {{[process_type |-> f, flow_name |-> n, choice |-> c] :
               n \in SeqToSet(FlowNames[f]), c \in SeqToSet(AnomalyChoices)} :
           f \in FamilySet}

\* a bug: the threshold one too low, a list of two keeps the kind drawn
ForcedBelowTwo(n, choice) == IF n < 2 THEN "wrong_event" ELSE choice

\* a bug: the kind drawn kept for a list too short for it
ChosenAnomalyType(n, choice) == choice

\* anomaly_type after `if len(sequence) < 3`, for a list of n elements
EffectiveAnomalyType(n, choice) == IF n < 3 THEN "wrong_event" ELSE choice

\* a bug: the family of the sequence not excluded from the draw
AllProcesses(process_type) == FamilySet

\* [p for p in VALID_FLOWS.keys() if p != process_type]
OtherProcesses(process_type) == FamilySet \ {process_type}

\* a bug: the guard of out_of_order used for skipped_step
CanSkipFromThree(n) == n > 2

\* `if len(sequence) > 3` of the skipped_step branch
CanSkip(n) == n > 3

\* `if len(sequence) > 2` of the out_of_order branch
CanSwap(n) == n > 2

\* a bug: the first event may be overwritten too
WrongEventPositionsFromZero(n) == 0..(n - 1)

\* random.randint(1, len(sequence) - 1) of the wrong_event branch
WrongEventPositions(n) == 1..(n - 1)

\* a bug: the last event may be removed too
SkipPositionsToLast(n) == 1..(n - 1)

\* random.randint(1, len(sequence) - 2) of the skipped_step branch
SkipPositions(n) == 1..(n - 2)

\* a bug: the first event may be swapped too
SwapPositionsFromZero(n) == 0..(n - 2)

\* random.randint(1, len(sequence) - 2) of the out_of_order branch
SwapPositions(n) == 1..(n - 2)

\* the draws of the branch taken, given the first draws d and the heap h the
\* branch runs on (the working copy is at address a).  random.randint(1, n - 1)
\* has nothing to draw for n < 2; no list of the catalog is that short.
AnomalousTailDraws(h, a, d) ==
    LET n            == Len(h[a])
        anomaly_type == EffectiveAnomalyType(n, d.choice)
        none         == [other_process |-> None, other_flow |-> None, pick |-> 0, position |-> 0]
    IN  IF anomaly_type = "wrong_event"
        THEN UNION {UNION {{[other_process |-> o, other_flow |-> m, pick |-> w, position |-> q] :
                               w \in 0..(Len(h[VALID_FLOWS[o][m]]) - 1),
                               q \in WrongEventPositions(n)} :
                           m \in SeqToSet(FlowNames[o])} :
                    o \in OtherProcesses(d.process_type)}
        ELSE IF anomaly_type = "skipped_step" /\ CanSkip(n)
        THEN {[none EXCEPT !.position = q] : q \in SkipPositions(n)}
        ELSE IF anomaly_type = "out_of_order" /\ CanSwap(n)
        THEN {[none EXCEPT !.position = q] : q \in SwapPositions(n)}
        ELSE {none}

\* generate_anomalous_sequence with the draws d (process_type, flow_name, choice)
\* and t (other_process, other_flow, pick, position; those its branch makes)
generate_anomalous_sequence(h, d, t) ==
    LET flows        == VALID_FLOWS[d.process_type]
        c            == AnomalousSequence(h, flows[d.flow_name])
        sequence     == c.addr
        original     == c.heap[sequence]
        anomaly_type == EffectiveAnomalyType(Len(original), d.choice)
        wrong_event  == At(c.heap[VALID_FLOWS[t.other_process][t.other_flow]], t.pick)
        applied      ==
            IF anomaly_type = "wrong_event"
            THEN [list |-> SetAt(original, t.position, wrong_event), position |-> t.position]
            ELSE IF anomaly_type = "skipped_step" /\ CanSkip(Len(original))
            THEN [list |-> PopAt(original, t.position), position |-> t.position]
            ELSE IF anomaly_type = "out_of_order" /\ CanSwap(Len(original))
            THEN [list |-> SetAt(SetAt(original, t.position, At(original, t.position + 1)),
                                 t.position + 1, At(original, t.position)),
                  position |-> t.position + 1]
            ELSE [list |-> original, position |-> -1]
    IN  [ heap   |-> [c.heap EXCEPT ![sequence] = applied.list],
          result |-> [ kind             |-> "anomalous",
                       sequence         |-> sequence,
                       process_type     |-> d.process_type,
                       anomaly_type     |-> anomaly_type,
                       anomaly_position |-> applied.position,
                       \* not returned: the draws and the list as copied
                       flow_name        |-> d.flow_name,
                       choice           |-> d.choice,
                       original         |-> original,
                       other_process    |-> t.other_process ] ]

----------------------------------------------------------------------------
(* Spec: a caller of the generators.  It calls one, may mutate the list it *)
(* got in place or have it monitored, and lets go of it before the next    *)
(* call.                                                                   *)

NoPredictor == Predictor("none", <<>>)

Init ==
    /\ heap = LoadedHeap
    /\ predictor = NoPredictor
    /\ GenIdle
    /\ ProjIdle
    /\ DataIdle
    /\ MonIdle
    /\ BenchIdle

\* the caller calls generate_normal_sequence(arg)
CallGenerateNormal ==
    /\ CallerIdle
    /\ \E arg \in FamilySet \cup {None} :
       \E d \in NormalDraws(arg) :
           LET g == generate_normal_sequence(heap, arg, d.process_type, d.flow_name)
           IN  heap' = g.heap /\ ret' = g.result
    /\ UNCHANGED <<projVars, dataVars, mutations, predictor, monVars, benchVars>>

\* the caller calls generate_anomalous_sequence()
CallGenerateAnomalous ==
    /\ CallerIdle
    /\ \E d \in AnomalousHeadDraws :
       LET c == AnomalousSequence(heap, VALID_FLOWS[d.process_type][d.flow_name])
       IN  \E t \in AnomalousTailDraws(c.heap, c.addr, d) :
               LET g == generate_anomalous_sequence(heap, d, t)
               IN  heap' = g.heap /\ ret' = g.result
    /\ UNCHANGED <<projVars, dataVars, mutations, predictor, monVars, benchVars>>

\* what the caller writes into a list it mutates
Tampered == "Tampered"

\* the lists one in-place mutation by the caller can make of a list: an item
\* assignment at either end, pop(), append(), clear()
CallerMutations(list) ==
    {Append(list, Tampered), <<>>}
    \cup (IF list = <<>> THEN {}
          ELSE {SetAt(list, 0, Tampered), SetAt(list, Len(list) - 1, Tampered),
                PopAt(list, Len(list) - 1)})

\* the caller mutates, in place, the list the generator returned
CallerMutates ==
    /\ ret # NoResult
    /\ mon_pc = "idle"
    /\ mutations < MaxMutations
    /\ \E list \in CallerMutations(heap[ret.sequence]) :
           heap' = [heap EXCEPT ![ret.sequence] = list]
    /\ mutations' = mutations + 1
    /\ UNCHANGED <<projVars, dataVars, ret, predictor, monVars, benchVars>>

\* the predictors a returned sequence is monitored with: the oracle of the
\* variant it was drawn from, and the predictor that has learnt the catalog
CallerPredictors ==
    {Predictor("oracle", heap[VALID_FLOWS[ret.process_type][ret.flow_name]]),
     Predictor("lookup", <<>>)}

\* the caller has the list, as returned, monitored
CallerMonitors ==
    /\ ret # NoResult
    /\ mon_pc = "idle"
    /\ mutations = 0
    /\ predictor' \in CallerPredictors
    /\ MonitorCall(ret.sequence)
    /\ UNCHANGED <<projVars, dataVars, heap, genVars, benchVars>>

\* the caller lets go of the result: the returned list is garbage
CallerDrops ==
    /\ ret # NoResult
    /\ mon_pc \in {"idle", "returned"}
    /\ heap' = [a \in CatalogAddrs |-> heap[a]]
    /\ ret' = NoResult
    /\ mutations' = 0
    /\ predictor' = NoPredictor
    /\ mon_pc' = "idle" /\ mon_events' = 0 /\ mon_n' = 0 /\ mon_i' = 0
    /\ decisions' = <<>> /\ calls' = <<>>
    /\ UNCHANGED <<projVars, dataVars, earlier, detection, benchVars>>

Next ==
    \/ CallGenerateNormal
    \/ CallGenerateAnomalous
    \/ CallerMutates
    \/ CallerMonitors
    \/ MonitorStep
    \/ MonitorReturn
    \/ CallerDrops

Spec == Init /\ [][Next]_vars

\* the catalog's stored lists hold what the literals of VALID_FLOWS say
CatalogIntact == \A a \in CatalogAddrs : heap[a] = LoadedHeap[a]

\* C9: after any sequence of generator calls and in-place mutations by the caller
\* of the lists they returned, every stored list of VALID_FLOWS is unchanged; the
\* list a generator returns is never one of the catalog's own.
C9_CatalogUnchanged ==
    /\ CatalogIntact
    /\ ret # NoResult => ret.sequence \notin CatalogAddrs

\* the caller has mutated, as often as the bound allows, a list that
\* generate_anomalous_sequence returned after overwriting an event of it
C9_Witness ==
    /\ ret # NoResult
    /\ ret.kind = "anomalous"
    /\ ret.anomaly_type = "wrong_event"
    /\ mutations = MaxMutations
    /\ heap[ret.sequence] # ret.original
    /\ Tampered \in SeqToSet(heap[ret.sequence])

\* C10: generate_normal_sequence(family) returns that family and a sequence equal
\* to one of its variants, and monitoring the sequence with the oracle of that
\* variant yields a verdict for every transition, none of them anomalous.
C10_NormalIsClean ==
    (ret # NoResult /\ ret.kind = "normal" /\ mutations = 0) =>
        /\ ret.arg # None => ret.process_type = ret.arg
        /\ \E n \in SeqToSet(FlowNames[ret.process_type]) :
               heap[ret.sequence] = FlowLiteral[ret.process_type][n]
        /\ (mon_pc = "returned" /\ predictor.kind = "oracle") =>
               /\ Len(decisions) = Len(heap[ret.sequence]) - 1
               /\ \A k \in 1..Len(decisions) : ~decisions[k].is_anomaly

\* the sequence returned by generate_normal_sequence("trade"), the variant
\* partial, has been monitored with the oracle
C10_Witness ==
    /\ ret # NoResult
    /\ ret.kind = "normal"
    /\ ret.arg = "trade"
    /\ ret.flow_name = "partial"
    /\ mon_pc = "returned"
    /\ predictor.kind = "oracle"
    /\ Len(decisions) = 7

\* the last call was generate_anomalous_sequence, it returned this kind of
\* anomaly, and the caller has left the returned list alone
ReturnedAnomaly(kind) ==
    /\ ret # NoResult
    /\ ret.kind = "anomalous"
    /\ ret.anomaly_type = kind
    /\ mutations = 0

\* the events of the variants of the families other than this one
ForeignEvents(process_type) ==
    UNION {SeqToSet(FlowLiteral[k[1]][k[2]]) : k \in {q \in FlowKeys : q[1] # process_type}}

\* C11: wrong_event on a variant of length N returns a list of length N; the
\* overwritten index p is within 1..N-1, every other position keeps its event,
\* the event at p is one of a variant of another family, and the returned index is p.
C11_WrongEvent ==
    ReturnedAnomaly("wrong_event") =>
        LET original == ret.original
            sequence == heap[ret.sequence]
            p        == ret.anomaly_position
            N        == Len(original)
        IN  /\ Len(sequence) = N
            /\ 1 <= p /\ p <= N - 1
            /\ \A i \in 0..(N - 1) : i # p => At(sequence, i) = At(original, i)
            /\ At(sequence, p) \in ForeignEvents(ret.process_type)

\* the last event of the longest variant has been overwritten
C11_Witness ==
    /\ ReturnedAnomaly("wrong_event")
    /\ ret.flow_name = "partial"
    /\ ret.anomaly_position = 7
    /\ At(heap[ret.sequence], 7) = "PaymentFailed"
    /\ At(ret.original, 7) = "TradeConfirmed"

\* C12: skipped_step on a variant of length N > 3 returns a list of length N-1:
\* the original without the element at an index p within 1..N-2, the others in
\* their order; the returned index is p.
C12_SkippedStep ==
    (ReturnedAnomaly("skipped_step") /\ Len(ret.original) > 3) =>
        LET original == ret.original
            sequence == heap[ret.sequence]
            p        == ret.anomaly_position
            N        == Len(original)
        IN  /\ Len(sequence) = N - 1
            /\ 1 <= p /\ p <= N - 2
            /\ \A i \in 0..(p - 1) : At(sequence, i) = At(original, i)
            /\ \A i \in p..(N - 2) : At(sequence, i) = At(original, i + 1)

\* the last but one event of a variant of four has been removed
C12_Witness ==
    /\ ReturnedAnomaly("skipped_step")
    /\ ret.process_type = "trade"
    /\ ret.flow_name = "cancelled"
    /\ ret.anomaly_position = 2
    /\ heap[ret.sequence] = <<"OrderSubmitted", "OrderValidated", "OrderCancelled">>

\* C13: out_of_order on a variant of length N > 2 returns a list of length N: the
\* original with the elements at p and p+1 transposed for a p within 1..N-2, every
\* other position unchanged; the returned index is p+1.
C13_OutOfOrder ==
    (ReturnedAnomaly("out_of_order") /\ Len(ret.original) > 2) =>
        LET original == ret.original
            sequence == heap[ret.sequence]
            p        == ret.anomaly_position - 1
            N        == Len(original)
        IN  /\ Len(sequence) = N
            /\ 1 <= p /\ p <= N - 2
            /\ At(sequence, p) = At(original, p + 1)
            /\ At(sequence, p + 1) = At(original, p)
            /\ \A i \in 0..(N - 1) : i \notin {p, p + 1} => At(sequence, i) = At(original, i)

\* the last two events of a variant of four have been transposed
C13_Witness ==
    /\ ReturnedAnomaly("out_of_order")
    /\ ret.process_type = "risk"
    /\ ret.flow_name = "accepted"
    /\ ret.anomaly_position = 3
    /\ heap[ret.sequence] = <<"RiskLimitBreached", "RiskAlertCreated",
                              "RiskAlertResolved", "RiskAlertAcknowledged">>

\* C14: when the variant drawn has fewer than 3 elements the returned kind is
\* wrong_event whatever kind was drawn; skipped_step and out_of_order are
\* returned only for variants of length >= 3.
C14_ShortForcesWrongEvent ==
    (ret # NoResult /\ ret.kind = "anomalous") =>
        /\ Len(ret.original) < 3 => ret.anomaly_type = "wrong_event"
        /\ ret.anomaly_type \in {"skipped_step", "out_of_order"} => Len(ret.original) >= 3
        /\ Len(ret.original) >= 3 => ret.anomaly_type = ret.choice

\* out_of_order was drawn for a variant of two events, wrong_event returned
C14_Witness ==
    /\ ReturnedAnomaly("wrong_event")
    /\ ret.choice = "out_of_order"
    /\ Len(ret.original) = 2
    /\ heap[ret.sequence] # ret.original

\* C15: the family generate_anomalous_sequence returns is the family the variant
\* was drawn from, and for wrong_event the family _detect_process_type gives to
\* the event at the returned index differs from it.
C15_FamilyIsOriginal ==
    (ret # NoResult /\ ret.kind = "anomalous" /\ mutations = 0) =>
        /\ \E n \in SeqToSet(FlowNames[ret.process_type]) :
               ret.original = FlowLiteral[ret.process_type][n]
        /\ ret.anomaly_type = "wrong_event" =>
               detect_process_type(At(heap[ret.sequence], ret.anomaly_position))
                   # ret.process_type

\* an account sequence returned with a trade event in it
C15_Witness ==
    /\ ReturnedAnomaly("wrong_event")
    /\ ret.process_type = "account"
    /\ detect_process_type(At(heap[ret.sequence], ret.anomaly_position)) = "trade"
    /\ At(heap[ret.sequence], 0) = "AccountApplicationSubmitted"

\* the indices at which two lists differ (one of them ending counts)
Differences(a, b) ==
    {i \in 0..((IF Len(a) >= Len(b) THEN Len(a) ELSE Len(b)) - 1) :
        i >= Len(a) \/ i >= Len(b) \/ At(a, i) # At(b, i)}

\* C18: the index generate_anomalous_sequence returns is, for each of the three
\* kinds, the smallest index at which the returned list differs from the variant
\* it was copied from.
C18_IndexIsFirstDifference ==
    (ret # NoResult /\ ret.kind = "anomalous" /\ mutations = 0) =>
        LET d == Differences(heap[ret.sequence], ret.original)
        IN  /\ d # {}
            /\ ret.anomaly_position \in d
            /\ \A i \in d : ret.anomaly_position <= i

\* C19: a list generate_anomalous_sequence returns is equal to no variant of any
\* family of VALID_FLOWS.
C19_AnomalousIsCorrupted ==
    (ret # NoResult /\ ret.kind = "anomalous" /\ mutations = 0) =>
        \A k \in FlowKeys : heap[ret.sequence] # FlowLiteral[k[1]][k[2]]

\* C24: with the catalog as the code defines it, every result of
\* generate_anomalous_sequence has an index that is a valid index of the returned
\* list, within 1..len-1 and never -1, and the returned list differs from the
\* variant it was copied from.
C24_IndexSetAndListChanged ==
    (ret # NoResult /\ ret.kind = "anomalous" /\ mutations = 0) =>
        /\ ret.anomaly_position # -1
        /\ 1 <= ret.anomaly_position
        /\ ret.anomaly_position <= Len(heap[ret.sequence]) - 1
        /\ heap[ret.sequence] # ret.original

\* the last possible index returned for a skipped step: the list has lost an
\* element and the index is that of its last event
C24_Witness ==
    /\ ReturnedAnomaly("skipped_step")
    /\ ret.flow_name = "partial"
    /\ ret.anomaly_position = 6
    /\ Len(heap[ret.sequence]) = 7

----------------------------------------------------------------------------
(* SpecAny: generate_normal_sequence monitored by any predictor that is a  *)
(* function of the history.  Where the catalog leaves one continuation the *)
(* predictor gives it; where variants part it gives any one of their       *)
(* continuations or something else ("" stands for every other text).       *)

\* the sequences of the catalog
Variants == {FlowLiteral[k[1]][k[2]] : k \in FlowKeys}

\* the events with which variants of the catalog go on after a history
Continuations(history) ==
    {NextOf(flow, history) :
        flow \in {v \in Variants : IsPrefix(history, v) /\ Len(history) < Len(v)}}

\* the histories after which variants of the catalog part
BranchHistories ==
    {h \in UNION {{SubSeq(v, 1, n) : n \in 1..(Len(v) - 1)} : v \in Variants} :
        Cardinality(Continuations(h)) > 1}

RECURSIVE Tables(_)
\* every choice of an answer for each of these histories
Tables(histories) ==
    IF histories = {} THEN {[h \in {} |-> ""]}
    ELSE LET h == CHOOSE h \in histories : TRUE
         IN  {t @@ (h :> answer) :
                 t \in Tables(histories \ {h}), answer \in Continuations(h) \cup {""}}

AnyPredictors == {Predictor("table", t) : t \in Tables(BranchHistories)}

InitAny ==
    /\ heap = LoadedHeap
    /\ predictor \in AnyPredictors
    /\ GenIdle
    /\ ProjIdle
    /\ DataIdle
    /\ MonIdle
    /\ BenchIdle

\* the agent monitors the sequence the generator returned
AgentMonitors ==
    /\ ret # NoResult
    /\ mon_pc = "idle"
    /\ MonitorCall(ret.sequence)
    /\ UNCHANGED <<projVars, dataVars, heap, predictor, genVars, benchVars>>

NextAny == CallGenerateNormal \/ AgentMonitors \/ MonitorStep \/ MonitorReturn

SpecAny == InitAny /\ [][NextAny]_vars

\* C27: whatever a predictor that is a function of the history answers, it gives
\* an anomalous verdict on at least one unmodified sequence of the catalog, since
\* variants share a prefix and go on differently; a run of the monitor on a
\* sequence gives these verdicts.
C27_SomeNormalSequenceFlagged ==
    /\ BranchHistories # {}
    /\ ret = NoResult =>
           \E v \in Variants :
               \E i \in 1..(Len(v) - 1) :
                   analyze_event(Slice(v, i), At(v, i),
                       CHOOSE raw \in PipeOutputs(predictor, Slice(v, i)) : TRUE).is_anomaly
    /\ (mon_pc = "returned" /\ ret # NoResult) =>
           /\ Len(decisions) = Len(heap[ret.sequence]) - 1
           /\ \A i \in 1..Len(decisions) :
                  decisions[i].is_anomaly <=>
                      (At(heap[ret.sequence], i) #
                          CleanPrediction(CHOOSE raw \in
                              PipeOutputs(predictor, Slice(heap[ret.sequence], i)) : TRUE))

\* a predictor that answers OrderValidated after OrderSubmitted has flagged the
\* unmodified variant trade/rejected, at its only transition
C27_Witness ==
    /\ mon_pc = "returned"
    /\ ret # NoResult
    /\ ret.kind = "normal"
    /\ ret.flow_name = "rejected"
    /\ ret.process_type = "trade"
    /\ predictor.kind = "table"
    /\ predictor.flow[<<"OrderSubmitted">>] = "OrderValidated"
    /\ decisions[1].is_anomaly

----------------------------------------------------------------------------
(* SpecEdited: the generators on a catalog one variant of which has been   *)
(* shortened (VALID_FLOWS is a module global; its lists can be edited).    *)

InitEdited ==
    /\ \E a \in CatalogAddrs : \E n \in 2..Len(LoadedHeap[a]) :
           heap = [LoadedHeap EXCEPT ![a] = SubSeq(@, 1, n)]
    /\ predictor = NoPredictor
    /\ GenIdle
    /\ ProjIdle
    /\ DataIdle
    /\ MonIdle
    /\ BenchIdle

NextEdited == CallGenerateAnomalous \/ CallerDrops

SpecEdited == InitEdited /\ [][NextEdited]_vars

\* C23: skipped_step applied to a variant of exactly 3 events returns the list
\* unmodified, the kind still skipped_step, and the index unset (-1).
C23_SkipOfThreeDoesNothing ==
    (ret # NoResult /\ ret.kind = "anomalous" /\ Len(ret.original) = 3
        /\ ret.choice = "skipped_step") =>
        /\ ret.anomaly_type = "skipped_step"
        /\ heap[ret.sequence] = ret.original
        /\ ret.anomaly_position = -1

\* skipped_step was drawn for the variant trade/cancelled cut to three events
C23_Witness ==
    /\ ReturnedAnomaly("skipped_step")
    /\ ret.process_type = "trade"
    /\ ret.flow_name = "cancelled"
    /\ heap[ret.sequence] = <<"OrderSubmitted", "OrderValidated", "OrderRouted">>
    /\ ret.anomaly_position = -1

----------------------------------------------------------------------------
(* run_benchmark: scoring and metrics.                                     *)

RECURSIVE AllAnomalous(_)
\* a bug: all() in place of any()
AllAnomalous(ds) ==
    IF ds = <<>> THEN TRUE
    ELSE IF ~Head(ds).is_anomaly THEN FALSE ELSE AllAnomalous(Tail(ds))

RECURSIVE AnyAnomaly(_)
\* any(d.is_anomaly for d in decisions)
AnyAnomaly(ds) ==
    IF ds = <<>> THEN FALSE
    ELSE IF Head(ds).is_anomaly THEN TRUE ELSE AnyAnomaly(Tail(ds))

\* a bug: the branches of the missed anomaly and of the false alarm exchanged
ClassifySwapped(has_anomaly, agent_detected_anomaly) ==
    IF has_anomaly /\ agent_detected_anomaly THEN "TP"
    ELSE IF has_anomaly /\ ~agent_detected_anomaly THEN "FP"
    ELSE IF ~has_anomaly /\ agent_detected_anomaly THEN "FN"
    ELSE "TN"

\* result_type of the if/elif chain that scores a test case
Classify(has_anomaly, agent_detected_anomaly) ==
    IF has_anomaly /\ agent_detected_anomaly THEN "TP"
    ELSE IF has_anomaly /\ ~agent_detected_anomaly THEN "FN"
    ELSE IF ~has_anomaly /\ agent_detected_anomaly THEN "FP"
    ELSE "TN"

\* a bug: the branch of the missed anomaly increments true_negatives
CounterOfMissedAsNegative(result_type) ==
    CASE result_type = "TP" -> "true_positives"
      [] result_type = "FN" -> "true_negatives"
      [] result_type = "FP" -> "false_positives"
      [] result_type = "TN" -> "true_negatives"

\* the counter each branch of the chain increments
CounterOf(result_type) ==
    CASE result_type = "TP" -> "true_positives"
      [] result_type = "FN" -> "false_negatives"
      [] result_type = "FP" -> "false_positives"
      [] result_type = "TN" -> "true_negatives"

\* a bug: agent_detected_anomaly set before the loop and never cleared, so a
\* detection in one test case carries over to those after it
ScoreCaseSticky(res, test_case, ds) ==
    LET agent_detected_anomaly ==
            AnyAnomaly(ds) \/ res.true_positives + res.false_positives > 0
        result_type            == Classify(test_case.has_anomaly, agent_detected_anomaly)
        counted                == [res EXCEPT ![CounterOf(result_type)] = @ + 1]
    IN  [counted EXCEPT !.details =
            Append(@, [ sequence       |-> test_case.sequence,
                        has_anomaly    |-> test_case.has_anomaly,
                        anomaly_type   |-> test_case.anomaly_type,
                        agent_detected |-> agent_detected_anomaly,
                        result         |-> result_type,
                        decisions      |->
                            [k \in 1..Len(ds) |->
                                [ predicted  |-> ds[k].event_predicted,
                                  observed   |-> ds[k].event_observed,
                                  is_anomaly |-> ds[k].is_anomaly ]] ])]

\* the body of the scoring loop after monitor_sequence has returned ds for
\* test_case: results with the counter incremented and the record appended
ScoreCase(res, test_case, ds) ==
    LET agent_detected_anomaly == AnyAnomaly(ds)
        result_type            == Classify(test_case.has_anomaly, agent_detected_anomaly)
        counted                == [res EXCEPT ![CounterOf(result_type)] = @ + 1]
    IN  [counted EXCEPT !.details =
            Append(@, [ sequence       |-> test_case.sequence,
                        has_anomaly    |-> test_case.has_anomaly,
                        anomaly_type   |-> test_case.anomaly_type,
                        agent_detected |-> agent_detected_anomaly,
                        result         |-> result_type,
                        decisions      |->
                            [k \in 1..Len(ds) |->
                                [ predicted  |-> ds[k].event_predicted,
                                  observed   |-> ds[k].event_observed,
                                  is_anomaly |-> ds[k].is_anomaly ]] ])]

\* The metrics are Python floats; the model computes them as exact fractions
\* [num, den] in lowest terms, so rounding is not modelled.
RECURSIVE GCD(_, _)
GCD(a, b) == IF b = 0 THEN a ELSE GCD(b, a % b)

\* the fraction a/b (a >= 0, b > 0) in lowest terms
Frac(a, b) == [num |-> a \div GCD(a, b), den |-> b \div GCD(a, b)]

Zero == Frac(0, 1)

\* a bug: the harmonic mean without its factor 2
F1ScoreHalved(precision, recall) ==
    IF precision.num * recall.den + recall.num * precision.den > 0
    THEN Frac(precision.num * recall.num,
              precision.num * recall.den + recall.num * precision.den)
    ELSE Zero

\* f1 = 2 * precision * recall / (precision + recall) if (precision + recall) > 0 else 0
F1Score(precision, recall) ==
    IF precision.num * recall.den + recall.num * precision.den > 0
    THEN Frac(2 * precision.num * recall.num,
              precision.num * recall.den + recall.num * precision.den)
    ELSE Zero

\* "Calculate metrics": the position reached and results["metrics"]
compute_metrics(res) ==
    LET tp == res.true_positives
        fp == res.false_positives
        tn == res.true_negatives
        fn == res.false_negatives
        precision == IF (tp + fp) > 0 THEN Frac(tp, tp + fp) ELSE Zero
        recall    == IF (tp + fn) > 0 THEN Frac(tp, tp + fn) ELSE Zero
        f1        == F1Score(precision, recall)
    IN  IF tp + tn + fp + fn = 0
        THEN \* accuracy = (tp + tn) / 0 raises ZeroDivisionError
             [pc |-> "raised", metrics |-> NoMetrics]
        ELSE [pc |-> "done",
              metrics |-> [ kind      |-> "metrics",
                            precision |-> precision,
                            recall    |-> recall,
                            f1_score  |-> f1,
                            accuracy  |-> Frac(tp + tn, tp + tn + fp + fn) ]]

----------------------------------------------------------------------------
(* SpecBench: run_benchmark(model_path, num_normal, num_anomalous).        *)

\* the draws of generate_normal_sequence explored in SpecBench
BenchNormalDraws ==
    { [process_type |-> "compliance", flow_name |-> "clear"],
      [process_type |-> "trade", flow_name |-> "cancelled"] }

\* the draws of generate_anomalous_sequence explored in SpecBench: one of each
\* anomaly type
BenchAnomalousDraws ==
    { [head |-> [process_type |-> "trade", flow_name |-> "rejected", choice |-> "wrong_event"],
       tail |-> [other_process |-> "payment", other_flow |-> "rejected", pick |-> 3, position |-> 1]],
      [head |-> [process_type |-> "trade", flow_name |-> "partial", choice |-> "skipped_step"],
       tail |-> [other_process |-> None, other_flow |-> None, pick |-> 0, position |-> 3]],
      [head |-> [process_type |-> "risk", flow_name |-> "accepted", choice |-> "out_of_order"],
       tail |-> [other_process |-> None, other_flow |-> None, pick |-> 0, position |-> 1]] }

\* the models the agent is loaded with in SpecBench, each a function of the
\* history: one that has learnt the catalog, one that generates nothing
BenchPredictors == {Predictor("lookup", <<>>), Predictor("silent", <<>>)}

InitBench ==
    /\ heap = LoadedHeap
    /\ predictor \in BenchPredictors
    /\ pc = "generate"
    /\ num_normal \in 0..MaxNormal
    /\ num_anomalous \in 0..MaxAnomalous
    /\ test_cases = <<>>
    /\ case_idx = 0
    /\ results = NoCounters
    /\ metrics = NoMetrics
    /\ GenIdle
    /\ ProjIdle
    /\ DataIdle
    /\ MonIdle

\* one iteration of "for _ in range(num_normal)"
BenchGenerateNormal ==
    /\ pc = "generate"
    /\ Len(test_cases) < num_normal
    /\ \E d \in BenchNormalDraws \cap NormalDraws(None) :
           LET g == generate_normal_sequence(heap, None, d.process_type, d.flow_name)
           IN  /\ heap' = g.heap
               /\ test_cases' = Append(test_cases,
                      [ sequence         |-> g.result.sequence,
                        process_type     |-> g.result.process_type,
                        has_anomaly      |-> FALSE,
                        anomaly_type     |-> None,
                        anomaly_position |-> None ])
    /\ UNCHANGED <<projVars, dataVars, predictor, genVars, monVars, pc, num_normal, num_anomalous,
                   case_idx, results, metrics>>

\* one iteration of "for _ in range(num_anomalous)"
BenchGenerateAnomalous ==
    /\ pc = "generate"
    /\ Len(test_cases) >= num_normal
    /\ Len(test_cases) < num_normal + num_anomalous
    /\ \E d \in BenchAnomalousDraws :
           LET c == AnomalousSequence(heap, VALID_FLOWS[d.head.process_type][d.head.flow_name])
               g == generate_anomalous_sequence(heap, d.head, d.tail)
           IN  /\ d.head \in AnomalousHeadDraws
               /\ d.tail \in AnomalousTailDraws(c.heap, c.addr, d.head)
               /\ heap' = g.heap
               /\ test_cases' = Append(test_cases,
                      [ sequence         |-> g.result.sequence,
                        process_type     |-> g.result.process_type,
                        has_anomaly      |-> TRUE,
                        anomaly_type     |-> g.result.anomaly_type,
                        anomaly_position |-> g.result.anomaly_position ])
    /\ UNCHANGED <<projVars, dataVars, predictor, genVars, monVars, pc, num_normal, num_anomalous,
                   case_idx, results, metrics>>

\* the orders random.shuffle can leave a list in
Shuffles(list) ==
    {[k \in 1..Len(list) |-> list[p[k]]] : p \in Permutations(1..Len(list))}

\* random.shuffle(test_cases), then results is set up
BenchShuffle ==
    /\ pc = "generate"
    /\ Len(test_cases) = num_normal + num_anomalous
    /\ test_cases' \in Shuffles(test_cases)
    /\ results' = NoCounters
    /\ case_idx' = 0
    /\ pc' = "loop"
    /\ UNCHANGED <<projVars, dataVars, heap, predictor, genVars, monVars, num_normal, num_anomalous, metrics>>

\* the scoring loop takes the next test case: agent.monitor_sequence(sequence)
BenchMonitorCall ==
    /\ pc = "loop"
    /\ case_idx < Len(test_cases)
    /\ MonitorCall(At(test_cases, case_idx).sequence)
    /\ pc' = "monitoring"
    /\ UNCHANGED <<projVars, dataVars, heap, predictor, genVars, num_normal, num_anomalous, test_cases,
                   case_idx, results, metrics>>

\* monitor_sequence has returned: the test case is scored and recorded
BenchScore ==
    /\ pc = "monitoring"
    /\ mon_pc = "returned"
    /\ results' = ScoreCase(results, At(test_cases, case_idx), decisions)
    /\ case_idx' = case_idx + 1
    /\ pc' = "loop"
    /\ mon_pc' = "idle"
    /\ UNCHANGED <<projVars, dataVars, heap, predictor, genVars, mon_events, mon_n, mon_i, decisions, calls,
                   earlier, detection,
                   num_normal, num_anomalous, test_cases, metrics>>

\* the scoring loop is over: the metrics are computed
BenchMetrics ==
    /\ pc = "loop"
    /\ case_idx >= Len(test_cases)
    /\ pc' = compute_metrics(results).pc
    /\ metrics' = compute_metrics(results).metrics
    /\ UNCHANGED <<projVars, dataVars, heap, predictor, genVars, monVars, num_normal, num_anomalous,
                   test_cases, case_idx, results>>

NextBench ==
    \/ BenchGenerateNormal
    \/ BenchGenerateAnomalous
    \/ BenchShuffle
    \/ BenchMonitorCall
    \/ MonitorStep
    \/ MonitorReturn
    \/ BenchScore
    \/ BenchMetrics

SpecBench == InitBench /\ [][NextBench]_vars

Counters == {"true_positives", "false_positives", "true_negatives", "false_negatives"}

\* C4: scoring a test case makes it TP when has_anomaly and detected, FN when
\* has_anomaly and not detected, FP when not has_anomaly and detected, TN when
\* neither; the matching counter grows by exactly 1, the other three stay.
C4_Scoring ==
    [][ Len(results'.details) # Len(results.details) =>
            LET test_case == At(test_cases, case_idx)
                detected  == \E k \in 1..Len(decisions) : decisions[k].is_anomaly
                expected  ==
                    CASE test_case.has_anomaly /\ detected   -> <<"TP", "true_positives">>
                      [] test_case.has_anomaly /\ ~detected  -> <<"FN", "false_negatives">>
                      [] ~test_case.has_anomaly /\ detected  -> <<"FP", "false_positives">>
                      [] ~test_case.has_anomaly /\ ~detected -> <<"TN", "true_negatives">>
            IN  /\ Len(results'.details) = Len(results.details) + 1
                /\ results'.details[Len(results'.details)].result = expected[1]
                /\ results'[expected[2]] = results[expected[2]] + 1
                /\ \A c \in Counters \ {expected[2]} : results'[c] = results[c]
      ]_vars

\* a run has scored a missed anomaly and a false alarm
C4_Witness ==
    /\ pc = "done"
    /\ results.false_negatives = 1
    /\ results.false_positives = 1
    /\ Len(results.details) = 2

\* C5: a sequence is counted as detected exactly when at least one verdict
\* monitor_sequence returned for it is anomalous; with no verdict (a sequence
\* without a transition) it is not counted as detected.
C5_DetectedIffAnyVerdict ==
    /\ \A j \in 1..Len(results.details) :
           LET rec == results.details[j]
           IN  /\ rec.agent_detected <=>
                      (\E k \in 1..Len(rec.decisions) : rec.decisions[k].is_anomaly)
               /\ rec.agent_detected <=> rec.result \in {"TP", "FP"}
    \* the record just appended is that of the verdicts monitor_sequence returned last
    /\ (pc \in {"loop", "done"} /\ Len(results.details) >= 1) =>
           LET rec == results.details[Len(results.details)]
           IN  /\ Len(rec.decisions) = Len(decisions)
               /\ rec.agent_detected <=>
                      (\E k \in 1..Len(decisions) : decisions[k].is_anomaly)
    /\ ~AnyAnomaly(<<>>)

\* a sequence counted as detected with a verdict that is anomalous after two
\* that are not
C5_Witness ==
    \E j \in 1..Len(results.details) :
        LET rec == results.details[j]
        IN  /\ rec.agent_detected
            /\ Len(rec.decisions) = 3
            /\ ~rec.decisions[1].is_anomaly
            /\ ~rec.decisions[2].is_anomaly
            /\ rec.decisions[3].is_anomaly

\* C6 as stated: for every confusion matrix, the all-zero one of an empty test
\* set included, the metric computation completes without a fault and every
\* ratio whose denominator is 0 evaluates to 0.
C6_MetricsNeverFault ==
    /\ pc # "raised"
    /\ pc = "done" =>
           /\ metrics # NoMetrics
           /\ results.true_positives + results.false_positives = 0 => metrics.precision = Zero
           /\ results.true_positives + results.false_negatives = 0 => metrics.recall = Zero
           /\ metrics.precision.num + metrics.recall.num = 0 => metrics.f1_score = Zero
           /\ Len(results.details) = 0 => metrics.accuracy = Zero

\* the test cases the scoring loop has processed so far
Processed == SubSeq(test_cases, 1, Len(results.details))

\* how many of these test cases are labelled has_anomaly = b
CountLabel(cases, b) == Cardinality({j \in 1..Len(cases) : cases[j].has_anomaly = b})

\* C25: throughout the scoring loop the four counters are non-negative and never
\* decrease, true_positives + false_negatives is the number of has_anomaly test
\* cases processed so far and false_positives + true_negatives that of the normal
\* ones; at the end they are num_anomalous and num_normal, and details holds one
\* record per test case.
C25_CountersAddUp ==
    /\ [](/\ \A c \in Counters : results[c] >= 0
          /\ Len(results.details) <= Len(test_cases)
          /\ results.true_positives + results.false_negatives = CountLabel(Processed, TRUE)
          /\ results.false_positives + results.true_negatives = CountLabel(Processed, FALSE)
          /\ pc \in {"loop", "monitoring"} =>
                 Len(results.details) = case_idx
          /\ pc \in {"done", "raised"} =>
                 /\ results.true_positives + results.false_negatives = num_anomalous
                 /\ results.false_positives + results.true_negatives = num_normal
                 /\ Len(results.details) = Len(test_cases)
                 /\ Len(test_cases) = num_normal + num_anomalous)
    /\ [][ (pc \in {"loop", "monitoring"}) =>
               (\A c \in Counters : results'[c] >= results[c])
         ]_vars

\* a run of two test cases has ended with a detected anomaly and a normal
\* sequence passed
C25_Witness ==
    /\ pc = "done"
    /\ num_normal = 1 /\ num_anomalous = 1
    /\ results.true_positives = 1
    /\ results.true_negatives = 1
    /\ Len(results.details) = 2

\* the verdicts a predictor that is a function of the history gives a list,
\* taken by itself
VerdictsOf(p, list) ==
    [i \in 1..(Len(list) - 1) |->
        analyze_event(Slice(list, i), At(list, i),
                      CHOOSE raw \in PipeOutputs(p, Slice(list, i)) : TRUE)]

\* whether one of these verdicts is anomalous
FlaggedAlone(p, list) ==
    \E i \in 1..(Len(list) - 1) : VerdictsOf(p, list)[i].is_anomaly

\* the test cases labelled has_anomaly = b that the predictor flags (or not)
CasesScored(b, flagged) ==
    {j \in 1..Len(test_cases) :
        /\ test_cases[j].has_anomaly = b
        /\ FlaggedAlone(predictor, heap[test_cases[j].sequence]) = flagged}

\* C28: with a deterministic predictor the result of each test case is that of the
\* case taken by itself, whatever was processed before it, so the final confusion
\* matrix and the metrics are the same for every order the shuffle leaves.
C28_OrderDoesNotMatter ==
    /\ \A j \in 1..Len(results.details) :
           LET rec == results.details[j]
           IN  /\ rec.sequence = test_cases[j].sequence
               /\ rec.agent_detected = FlaggedAlone(predictor, heap[rec.sequence])
               /\ rec.result = Classify(rec.has_anomaly,
                                        FlaggedAlone(predictor, heap[rec.sequence]))
    /\ pc \in {"done", "raised"} =>
           /\ results.true_positives = Cardinality(CasesScored(TRUE, TRUE))
           /\ results.false_negatives = Cardinality(CasesScored(TRUE, FALSE))
           /\ results.false_positives = Cardinality(CasesScored(FALSE, TRUE))
           /\ results.true_negatives = Cardinality(CasesScored(FALSE, FALSE))
    /\ pc = "done" => metrics = compute_metrics(results).metrics

\* the shuffle has put the anomalous test case first; it was detected and the
\* normal one after it was passed
C28_Witness ==
    /\ pc = "done"
    /\ Len(test_cases) = 2
    /\ test_cases[1].has_anomaly
    /\ ~test_cases[2].has_anomaly
    /\ results.details[1].result = "TP"
    /\ results.details[2].result = "TN"

----------------------------------------------------------------------------
(* SpecMetrics: the metric computation on every confusion matrix.          *)

InitMetrics ==
    /\ heap = LoadedHeap
    /\ predictor = NoPredictor
    /\ pc = "metrics"
    /\ \E tp \in 0..MaxCount, fp \in 0..MaxCount, tn \in 0..MaxCount, fn \in 0..MaxCount :
           results = [ true_positives |-> tp, false_positives |-> fp,
                       true_negatives |-> tn, false_negatives |-> fn,
                       details |-> <<>> ]
    /\ num_normal = 0 /\ num_anomalous = 0 /\ test_cases = <<>> /\ case_idx = 0
    /\ metrics = NoMetrics
    /\ GenIdle
    /\ ProjIdle
    /\ DataIdle
    /\ MonIdle

\* "Calculate metrics" on the matrix
ApplyMetrics ==
    /\ pc = "metrics"
    /\ pc' = compute_metrics(results).pc
    /\ metrics' = compute_metrics(results).metrics
    /\ UNCHANGED <<projVars, dataVars, heap, predictor, genVars, monVars, num_normal, num_anomalous,
                   test_cases, case_idx, results>>

NextMetrics == ApplyMetrics

SpecMetrics == InitMetrics /\ [][NextMetrics]_vars

\* whether the fraction q is a/b
IsRatio(q, a, b) == q.num * b = a * q.den

\* C7: for a confusion matrix with at least one test case, precision = TP/(TP+FP),
\* recall = TP/(TP+FN), f1 = 2*precision*recall/(precision+recall) and
\* accuracy = (TP+TN)/(TP+FP+TN+FN) wherever the denominator is not 0; TP=8, FP=2,
\* TN=7, FN=3 gives precision 8/10, recall 8/11, accuracy 15/20 and f1 16/21.
C7_Metrics ==
    LET tp == results.true_positives
        fp == results.false_positives
        tn == results.true_negatives
        fn == results.false_negatives
        p  == metrics.precision
        r  == metrics.recall
    IN  (pc \in {"done", "raised"} /\ tp + fp + tn + fn >= 1) =>
            /\ pc = "done"
            /\ tp + fp # 0 => IsRatio(p, tp, tp + fp)
            /\ tp + fn # 0 => IsRatio(r, tp, tp + fn)
            /\ IsRatio(metrics.accuracy, tp + tn, tp + fp + tn + fn)
            /\ p.num * r.den + r.num * p.den # 0 =>
                   \* f1 * (p + r) = 2 * p * r
                   metrics.f1_score.num * (p.num * r.den + r.num * p.den)
                       = 2 * p.num * r.num * metrics.f1_score.den
            /\ (tp = 8 /\ fp = 2 /\ tn = 7 /\ fn = 3) =>
                   /\ IsRatio(p, 8, 10)
                   /\ IsRatio(r, 8, 11)
                   /\ IsRatio(metrics.accuracy, 15, 20)
                   /\ IsRatio(metrics.f1_score, 16, 21)

\* the metrics of the matrix TP=8, FP=2, TN=7, FN=3 have been computed
C7_Witness ==
    /\ pc = "done"
    /\ results.true_positives = 8
    /\ results.false_positives = 2
    /\ results.true_negatives = 7
    /\ results.false_negatives = 3
    /\ metrics.f1_score = [num |-> 16, den |-> 21]

----------------------------------------------------------------------------
(* The in-memory projection (kurrent_skills/templates/python/projection.py): *)
(* the Projection class, the four order handlers registered on              *)
(* order_projection, and the subscription loop that feeds it.               *)
(*                                                                         *)
(* A Python dict is a function whose domain is the set of keys present;    *)
(* {} is <<>>.  An Optional[int] is <<>> for None and <<p>> for the int p. *)

\* the most events the subscription yields in one behaviour
MaxEvents == 4

\* dict.get(k, default)
Get(d, k, default) == IF k \in DOMAIN d THEN d[k] ELSE default

\* {**d, ...upd}: the keys of d, overridden and extended by those of upd
Merge(d, upd) ==
    [k \in DOMAIN d \cup DOMAIN upd |-> IF k \in DOMAIN upd THEN upd[k] ELSE d[k]]

\* the characters of the stream names: two order streams (stream_1, stream_2)
\* and a system stream
StreamSpell ==
    [ stream_1 |-> <<"o", "r", "d", "e", "r", "-", "1">>,
      stream_2 |-> <<"o", "r", "d", "e", "r", "-", "2">>,
      system   |-> <<"$", "s", "t", "a", "t", "s", "-", "0">> ]

\* event.stream_name.startswith("$")
SystemStream(stream_name) ==
    LET cs == StreamSpell[stream_name] IN Len(cs) >= 1 /\ cs[1] = "$"

handle_order_created(current, data, event) ==
    [ order_id    |-> Get(data, "orderId", None),
      customer_id |-> Get(data, "customerId", None),
      amount      |-> Get(data, "amount", None),
      status      |-> "created",
      items       |-> <<>> ]

\* a bug: the price replaces the amount
handle_item_added_price_only(current, data, event) ==
    Merge(current, [ items  |-> Append(Get(current, "items", <<>>), Get(data, "item", None)),
                     amount |-> Get(data, "price", 0) ])

handle_item_added(current, data, event) ==
    Merge(current, [ items  |-> Append(Get(current, "items", <<>>), Get(data, "item", None)),
                     amount |-> Get(current, "amount", 0) + Get(data, "price", 0) ])

handle_order_shipped(current, data, event) ==
    Merge(current, [ status |-> "shipped", shipped_at |-> Get(data, "shippedAt", None) ])

handle_order_completed(current, data, event) ==
    Merge(current, [ status |-> "completed" ])

\* order_projection._handlers after the four calls of on()
handlers ==
    [ OrderCreated   |-> "handle_order_created",
      ItemAdded      |-> "handle_item_added",
      OrderShipped   |-> "handle_order_shipped",
      OrderCompleted |-> "handle_order_completed" ]

\* handler(current, data, event)
CallHandler(handler, current, data, event) ==
    CASE handler = "handle_order_created"   -> handle_order_created(current, data, event)
      [] handler = "handle_item_added"      -> handle_item_added(current, data, event)
      [] handler = "handle_order_shipped"   -> handle_order_shipped(current, data, event)
      [] handler = "handle_order_completed" -> handle_order_completed(current, data, event)

\* a bug: the checkpoint is left as it was
CheckpointKept(old, event) == old

\* self.checkpoint = event.commit_position
CheckpointAfter(old, event) == <<event.commit_position>>

\* Projection.apply: the projection's state and checkpoint after the call, and
\* the value returned
apply(self, event) ==
    LET handler == Get(handlers, event.type, None) IN
    IF Truthy(handler)
    THEN LET stream_id == event.stream_name
             current   == Get(self.state, stream_id, <<>>)
             data      == event.data
         IN  [ state      |-> \* self.state[stream_id] = handler(current, data, event)
                             Merge(self.state,
                                   stream_id :> CallHandler(handler, current, data, event)),
               checkpoint |-> CheckpointAfter(self.checkpoint, event),
               returned   |-> TRUE ]
    ELSE [ state |-> self.state, checkpoint |-> self.checkpoint, returned |-> FALSE ]

\* the payloads written with each event type: the two orders and the two items
\* of the script, and a type no handler is registered for
Payloads(stream_name) ==
    [ OrderCreated   |-> { [orderId |-> stream_name, customerId |-> "cust-1", amount |-> 100],
                           [orderId |-> stream_name, customerId |-> "cust-2", amount |-> 50] },
      ItemAdded      |-> { [item |-> "Widget", price |-> 25],
                           [item |-> "Gadget", price |-> 30] },
      OrderShipped   |-> { [shippedAt |-> "2024-01-15T10:00:00Z"] },
      OrderCompleted |-> { <<>> },
      OrderCancelled |-> { <<>> } ]

\* the events the subscription to $all can yield next, at commit position p
RecordedEvents(p) ==
    UNION { UNION { { [type |-> t, stream_name |-> s, data |-> d, commit_position |-> p] :
                          d \in Payloads(s)[t] } :
                    t \in DOMAIN Payloads(s) } :
            s \in DOMAIN StreamSpell }

InitProjection ==
    /\ state = <<>>
    /\ checkpoint = <<>>
    /\ applies = <<>>
    /\ position = 0
    /\ heap = LoadedHeap
    /\ predictor = NoPredictor
    /\ GenIdle
    /\ MonIdle
    /\ BenchIdle
    /\ DataIdle

\* an iteration of the subscription loop on an event of a system stream
SubscriptionSkips ==
    /\ position < MaxEvents
    /\ \E event \in RecordedEvents(position + 1) :
           /\ SystemStream(event.stream_name)
           /\ position' = event.commit_position
    /\ UNCHANGED <<state, checkpoint, applies>>
    /\ UNCHANGED <<heap, predictor, genVars, monVars, benchVars, dataVars>>

\* an iteration of the subscription loop that hands the event to the projection
SubscriptionApplies ==
    /\ position < MaxEvents
    /\ \E event \in RecordedEvents(position + 1) :
           LET after == apply([state |-> state, checkpoint |-> checkpoint], event)
           IN  /\ ~SystemStream(event.stream_name)
               /\ position' = event.commit_position
               /\ state' = after.state
               /\ checkpoint' = after.checkpoint
               /\ applies' = Append(applies, [event |-> event, returned |-> after.returned])
    /\ UNCHANGED <<heap, predictor, genVars, monVars, benchVars, dataVars>>

NextProjection == SubscriptionSkips \/ SubscriptionApplies

SpecProjection == InitProjection /\ [][NextProjection]_vars

\* the handled events of a stream, in the order they were applied
HandledOn(stream_name) ==
    LET mine == SelectSeq(applies, LAMBDA a : a.returned /\ a.event.stream_name = stream_name)
    IN  [i \in 1..Len(mine) |-> mine[i].event]

\* the index of the last event of one of the types in evs, 0 if there is none
RECURSIVE LastOf(_, _)
LastOf(evs, types) ==
    IF evs = <<>> THEN 0
    ELSE IF evs[Len(evs)].type \in types THEN Len(evs)
    ELSE LastOf(SubSeq(evs, 1, Len(evs) - 1), types)

\* the sum of the prices the events carry (0 where there is none)
RECURSIVE PriceSum(_)
PriceSum(evs) ==
    IF evs = <<>> THEN 0
    ELSE Get(evs[1].data, "price", 0) + PriceSum(Tail(evs))

\* C22: after any sequence of OrderCreated, ItemAdded, OrderShipped and
\* OrderCompleted events over several streams has been applied in order, the
\* state of each stream is determined by that stream's own events: a stream
\* without handled events has no entry; amount is the amount of the stream's
\* last OrderCreated plus the prices of the ItemAdded events after it, items
\* has one entry per such ItemAdded (for a stream never created: all its
\* ItemAdded events, starting from 0), and status is created, shipped or
\* completed according to the last OrderCreated, OrderShipped or OrderCompleted.
C22_StreamStateFromOwnEvents ==
    \A s \in DOMAIN StreamSpell :
        LET evs     == HandledOn(s)
            created == LastOf(evs, {"OrderCreated"})
            added   == SelectSeq(SubSeq(evs, created + 1, Len(evs)),
                                 LAMBDA e : e.type = "ItemAdded")
            setter  == LastOf(evs, {"OrderCreated", "OrderShipped", "OrderCompleted"})
        IN  /\ (evs = <<>>) <=> (s \notin DOMAIN state)
            /\ (created > 0) =>
                   /\ state[s].amount = evs[created].data.amount + PriceSum(added)
                   /\ state[s].items = [i \in 1..Len(added) |-> added[i].data.item]
            /\ (created = 0 /\ added # <<>>) =>
                   /\ state[s].amount = PriceSum(added)
                   /\ state[s].items = [i \in 1..Len(added) |-> added[i].data.item]
            /\ (setter > 0) =>
                   state[s].status =
                       CASE evs[setter].type = "OrderCreated"   -> "created"
                         [] evs[setter].type = "OrderShipped"   -> "shipped"
                         [] evs[setter].type = "OrderCompleted" -> "completed"

\* the second order of the script (created with 50, a Gadget of 30 added) next
\* to another stream that has been through events of its own
C22_Witness ==
    /\ "stream_1" \in DOMAIN state
    /\ "stream_2" \in DOMAIN state
    /\ Len(HandledOn("stream_1")) >= 2
    /\ Len(HandledOn("stream_2")) = 2
    /\ HandledOn("stream_2")[1].type = "OrderCreated"
    /\ state["stream_2"].amount = 80
    /\ state["stream_2"].status = "created"
    /\ state["stream_2"].items = <<"Gadget">>

\* the last call of apply in a log of calls
LastApplied(log) == log[Len(log)]

\* C30: apply on an event whose type has no registered handler returns False and
\* leaves the state map and the checkpoint as they were; on a handled event it
\* returns True, changes only the entry of the event's stream and sets the
\* checkpoint to the event's commit position; so the checkpoint is None until
\* the first handled event and afterwards the commit position of the most
\* recently handled event.
C30_ApplyFrame ==
    /\ [](LET handled == SelectSeq(applies, LAMBDA a : a.event.type \in DOMAIN handlers)
          IN  IF handled = <<>>
              THEN checkpoint = <<>>
              ELSE checkpoint = <<handled[Len(handled)].event.commit_position>>)
    /\ [][ (Len(applies') = Len(applies) + 1) =>
              LET call == LastApplied(applies')
                  s    == call.event.stream_name
              IN  IF call.event.type \in DOMAIN handlers
                  THEN /\ call.returned = TRUE
                       /\ DOMAIN state' = DOMAIN state \cup {s}
                       /\ \A other \in DOMAIN state \ {s} : state'[other] = state[other]
                       /\ checkpoint' = <<call.event.commit_position>>
                  ELSE /\ call.returned = FALSE
                       /\ state' = state
                       /\ checkpoint' = checkpoint ]_vars

\* an unhandled event was applied after a handled one, with a skipped system
\* event in between: the checkpoint is still the handled event's position
C30_Witness ==
    /\ Len(applies) >= 2
    /\ applies[1].returned
    /\ ~applies[Len(applies)].returned
    /\ position > Len(applies)
    /\ checkpoint = <<applies[1].event.commit_position>>

----------------------------------------------------------------------------
(* The dataset generator (examples/huggingface_x_kurrent_skills/src/       *)
(* process_generator.py with events/process_events.py, constructed and     *)
(* called by populate_process_events.py): ProcessEventGenerator.__init__,  *)
(* the five sequence generators and the loop of generate_dataset.          *)
(*                                                                         *)
(* The random source is the process-wide one of the `random` module.  Its  *)
(* state is a number below RngModulus; a draw is a function of the state   *)
(* and moves the state on.  Of a generated event only event_type is kept.  *)

\* seeds tried: 0..MaxSeed
MaxSeed == 2

\* num_sequences tried: 0..MaxSequences
MaxSequences == 2

\* number of states of the random source
RngModulus == 16

\* the largest filled_qty drawn for a cancelled order (quantity // 2 in the code)
MaxFilled == 2

PROCESS_FLOWS ==
    [ trade_success |->
          <<"OrderSubmitted", "OrderValidated", "OrderRouted",
            "OrderFilled", "TradeBooked", "TradeSettled", "TradeConfirmed">>,
      trade_partial_fill |->
          <<"OrderSubmitted", "OrderValidated", "OrderRouted",
            "OrderPartiallyFilled", "OrderPartiallyFilled", "OrderFilled",
            "TradeBooked", "TradeSettled", "TradeConfirmed">>,
      trade_rejected |->
          <<"OrderSubmitted", "OrderRejected">>,
      trade_cancelled |->
          <<"OrderSubmitted", "OrderValidated", "OrderRouted",
            "OrderPartiallyFilled", "OrderCancelled">>,
      payment_success |->
          <<"PaymentInitiated", "PaymentValidated", "PaymentPendingApproval",
            "PaymentApproved", "PaymentExecuted", "PaymentCompleted">>,
      payment_rejected |->
          <<"PaymentInitiated", "PaymentValidated", "PaymentPendingApproval",
            "PaymentRejected">>,
      payment_failed |->
          <<"PaymentInitiated", "PaymentValidated", "PaymentPendingApproval",
            "PaymentApproved", "PaymentExecuted", "PaymentFailed">>,
      risk_mitigated |->
          <<"RiskLimitBreached", "RiskAlertCreated", "RiskAlertAcknowledged",
            "RiskMitigationStarted", "RiskMitigationCompleted", "RiskAlertResolved">>,
      risk_accepted |->
          <<"RiskLimitBreached", "RiskAlertCreated", "RiskAlertAcknowledged",
            "RiskAlertResolved">>,
      compliance_clear |->
          <<"ComplianceCheckTriggered", "ComplianceCheckPassed">>,
      compliance_flagged_cleared |->
          <<"ComplianceCheckTriggered", "ComplianceFlagRaised",
            "ComplianceReviewAssigned", "ComplianceReviewCompleted", "ComplianceCaseClosed">>,
      compliance_escalated |->
          <<"ComplianceCheckTriggered", "ComplianceFlagRaised",
            "ComplianceReviewAssigned", "ComplianceEscalated",
            "ComplianceReviewCompleted", "ComplianceCaseClosed">>,
      account_opened |->
          <<"AccountApplicationSubmitted", "AccountKYCStarted",
            "AccountDocumentReceived", "AccountDocumentReceived",
            "AccountKYCCompleted", "AccountOpened", "AccountFunded">>,
      account_rejected |->
          <<"AccountApplicationSubmitted", "AccountKYCStarted",
            "AccountDocumentReceived", "AccountKYCCompleted">> ]

\* the keys of PROCESS_FLOWS that belong to a process
FlowKeysOf ==
    [ trade      |-> {"trade_success", "trade_partial_fill", "trade_rejected",
                      "trade_cancelled"},
      payment    |-> {"payment_success", "payment_rejected", "payment_failed"},
      risk       |-> {"risk_mitigated", "risk_accepted"},
      compliance |-> {"compliance_clear", "compliance_flagged_cleared",
                      "compliance_escalated"},
      account    |-> {"account_opened", "account_rejected"} ]

\* n copies of the event type x
Repeat(x, n) == [i \in 1..n |-> x]

\* amounts drawn by random.uniform(1000, 1000000): the ends and the two sides of
\* the dual-approval threshold
Amounts == <<1000, 100000, 100001, 1000000>>

\* the draws of one generated sequence that decide an event type: filled_qty of
\* a cancelled order, whether random.random() > 0.5, num_fills, and the amount
\* of a payment
Draws ==
    [ filled_qty : 0..MaxFilled,
      over_half  : BOOLEAN,
      num_fills  : 2..4,
      amount     : { Amounts[i] : i \in DOMAIN Amounts } ]

generate_trade_sequence(outcome, d) ==
    LET submitted == <<"OrderSubmitted">>
        routed    == submitted \o <<"OrderValidated", "OrderRouted">>
        fills     == IF outcome = "partial_fill" \/ outcome = "success"
                     THEN (IF outcome = "partial_fill" \/ d.over_half
                           THEN Repeat("OrderPartiallyFilled", d.num_fills - 1)
                           ELSE <<>>) \o <<"OrderFilled">>
                     ELSE <<>>
    IN  IF outcome = "rejected" THEN submitted \o <<"OrderRejected">>
        ELSE IF outcome = "cancelled"
             THEN routed \o (IF d.filled_qty > 0 THEN <<"OrderPartiallyFilled">> ELSE <<>>)
                         \o <<"OrderCancelled">>
        ELSE routed \o fills \o <<"TradeBooked", "TradeSettled", "TradeConfirmed">>

generate_payment_sequence(outcome, d) ==
    LET required_approvers == IF d.amount > 100000 THEN 2 ELSE 1
        pending  == <<"PaymentInitiated", "PaymentValidated", "PaymentPendingApproval">>
        executed == pending \o Repeat("PaymentApproved", required_approvers)
                            \o <<"PaymentExecuted">>
    IN  IF outcome = "rejected" THEN pending \o <<"PaymentRejected">>
        ELSE IF outcome = "failed" THEN executed \o <<"PaymentFailed">>
        ELSE executed \o <<"PaymentCompleted">>

generate_risk_sequence(outcome, d) ==
    <<"RiskLimitBreached", "RiskAlertCreated", "RiskAlertAcknowledged">>
        \o (IF outcome = "mitigated"
            THEN <<"RiskMitigationStarted", "RiskMitigationCompleted">>
            ELSE <<>>)
        \o <<"RiskAlertResolved">>

generate_compliance_sequence(outcome, d) ==
    IF outcome = "clear"
    THEN <<"ComplianceCheckTriggered", "ComplianceCheckPassed">>
    ELSE <<"ComplianceCheckTriggered", "ComplianceFlagRaised", "ComplianceReviewAssigned">>
             \o (IF outcome = "escalated" THEN <<"ComplianceEscalated">> ELSE <<>>)
             \o <<"ComplianceReviewCompleted", "ComplianceCaseClosed">>

generate_account_sequence(outcome, d) ==
    LET kyc == <<"AccountApplicationSubmitted", "AccountKYCStarted">>
                   \o Repeat("AccountDocumentReceived", 2)
                   \o <<"AccountKYCCompleted">>
    IN  IF outcome = "rejected" THEN kyc
        ELSE kyc \o <<"AccountOpened", "AccountFunded">>

\* the list `generators` of generate_dataset: each generator with its outcomes
generators ==
    << [ process  |-> "trade",
         outcomes |-> <<"success", "success", "partial_fill", "rejected", "cancelled">> ],
       [ process  |-> "payment",
         outcomes |-> <<"success", "success", "rejected", "failed">> ],
       [ process  |-> "risk",
         outcomes |-> <<"mitigated", "mitigated", "accepted">> ],
       [ process  |-> "compliance",
         outcomes |-> <<"clear", "clear", "flagged", "escalated">> ],
       [ process  |-> "account",
         outcomes |-> <<"opened", "opened", "rejected">> ] >>

\* events = generator(outcome), as event types
Generate(process, outcome, d) ==
    CASE process = "trade"      -> generate_trade_sequence(outcome, d)
      [] process = "payment"    -> generate_payment_sequence(outcome, d)
      [] process = "risk"       -> generate_risk_sequence(outcome, d)
      [] process = "compliance" -> generate_compliance_sequence(outcome, d)
      [] process = "account"    -> generate_account_sequence(outcome, d)

\* the state random.seed(s) puts the source in
Seeded(s) == (7 * s + 3) % RngModulus

\* the value below n that a draw made in state x gives
Draw(x, n) == (x * n) \div RngModulus

\* the state of the source after k draws
RECURSIVE AdvanceBy(_, _)
AdvanceBy(x, k) == IF k = 0 THEN x ELSE AdvanceBy((5 * x + 1) % RngModulus, k - 1)

\* one iteration of generate_dataset's loop with the source in state x: the
\* generator and the outcome chosen, the deciding draws of the sequence, and the
\* state the source is left in
DrawnFrom(x) ==
    LET g == generators[Draw(x, Len(generators)) + 1]
    IN  [ process |-> g.process,
          outcome |-> g.outcomes[Draw(AdvanceBy(x, 1), Len(g.outcomes)) + 1],
          d       |-> [ filled_qty |-> Draw(AdvanceBy(x, 2), MaxFilled + 1),
                        over_half  |-> Draw(AdvanceBy(x, 3), 2) = 1,
                        num_fills  |-> 2 + Draw(AdvanceBy(x, 4), 3),
                        amount     |-> Amounts[Draw(AdvanceBy(x, 5), Len(Amounts)) + 1] ],
          rng     |-> AdvanceBy(x, 6) ]

\* `if seed:` in __init__
SeedGiven(s) == s # <<>> /\ s[1] # 0

\* two runs of the script with the same --seed and --num-sequences, the random
\* source of each in any state
InitSeed ==
    /\ heap = LoadedHeap
    /\ predictor = NoPredictor
    /\ GenIdle
    /\ MonIdle
    /\ BenchIdle
    /\ ProjIdle
    /\ all_events = [r \in Runs |-> <<>>]
    /\ streams = [r \in Runs |-> <<>>]
    /\ seed \in { <<s>> : s \in 0..MaxSeed }
    /\ num_sequences \in 0..MaxSequences
    /\ run_pc = [r \in Runs |-> "start"]
    /\ rng \in [Runs -> 0..(RngModulus - 1)]

\* generator = ProcessEventGenerator(seed=args.seed)
Constructs ==
    /\ \E r \in Runs :
           /\ run_pc[r] = "start"
           /\ run_pc' = [run_pc EXCEPT ![r] = "constructed"]
           /\ rng' = [rng EXCEPT ![r] = IF SeedGiven(seed) THEN Seeded(seed[1]) ELSE @]
    /\ UNCHANGED <<seed, num_sequences, all_events, streams>>
    /\ UNCHANGED <<heap, predictor, genVars, monVars, benchVars, projVars>>

\* what an iteration of generate_dataset's loop does with the sequence generated
Extended(r, process, outcome, events) ==
    /\ streams' = [streams EXCEPT ![r] = Append(@, [ process |-> process,
                                                     outcome |-> outcome,
                                                     events  |-> events ])]
    /\ all_events' = [all_events EXCEPT ![r] = @ \o events]

\* an iteration of generate_dataset's loop, its draws made by the source
GeneratesFromSource ==
    /\ \E r \in Runs :
           LET drawn == DrawnFrom(rng[r]) IN
           /\ run_pc[r] = "constructed"
           /\ Len(streams[r]) < num_sequences
           /\ Extended(r, drawn.process, drawn.outcome,
                       Generate(drawn.process, drawn.outcome, drawn.d))
           /\ rng' = [rng EXCEPT ![r] = drawn.rng]
    /\ UNCHANGED <<seed, num_sequences, run_pc>>
    /\ UNCHANGED <<heap, predictor, genVars, monVars, benchVars, projVars>>

\* return all_events, streams
DatasetReturns ==
    /\ \E r \in Runs :
           /\ run_pc[r] = "constructed"
           /\ Len(streams[r]) >= num_sequences
           /\ run_pc' = [run_pc EXCEPT ![r] = "done"]
    /\ UNCHANGED <<seed, num_sequences, rng, all_events, streams>>
    /\ UNCHANGED <<heap, predictor, genVars, monVars, benchVars, projVars>>

NextSeed == Constructs \/ GeneratesFromSource \/ DatasetReturns

SpecSeed == InitSeed /\ [][NextSeed]_vars

\* C21: two runs that construct ProcessEventGenerator with the same integer
\* seed and call generate_dataset with the same num_sequences produce the same
\* list of event types, whatever state the random source was in before.
C21_SameSeedSameNames ==
    (\A r \in Runs : run_pc[r] = "done") => all_events[1] = all_events[2]

\* one run of generate_dataset without a seed, every draw free
InitDataset ==
    /\ heap = LoadedHeap
    /\ predictor = NoPredictor
    /\ GenIdle
    /\ MonIdle
    /\ BenchIdle
    /\ ProjIdle
    /\ all_events = [r \in Runs |-> <<>>]
    /\ streams = [r \in Runs |-> <<>>]
    /\ seed = <<>>
    /\ num_sequences \in 0..MaxSequences
    /\ run_pc = [r \in Runs |-> IF r = 1 THEN "start" ELSE "none"]
    /\ rng = [r \in Runs |-> 0]

\* an iteration of generate_dataset's loop, for every value of its draws
GeneratesAnyDraw ==
    /\ \E r \in Runs :
       \E g \in DOMAIN generators :
       \E k \in DOMAIN generators[g].outcomes :
       \E d \in Draws :
           LET process == generators[g].process
               outcome == generators[g].outcomes[k]
           IN  /\ run_pc[r] = "constructed"
               /\ Len(streams[r]) < num_sequences
               /\ Extended(r, process, outcome, Generate(process, outcome, d))
    /\ UNCHANGED <<seed, num_sequences, run_pc, rng>>
    /\ UNCHANGED <<heap, predictor, genVars, monVars, benchVars, projVars>>

NextDataset == Constructs \/ GeneratesAnyDraw \/ DatasetReturns

SpecDataset == InitDataset /\ [][NextDataset]_vars

\* the sequences registered in PROCESS_FLOWS for a process
RegisteredFor(process) == { PROCESS_FLOWS[k] : k \in FlowKeysOf[process] }

\* C29: for every outcome generate_dataset passes to the five generators and
\* every random draw, the list of event types produced is one of the sequences
\* registered in PROCESS_FLOWS for that process.
C29_GeneratedAreRegistered ==
    \A r \in Runs : \A i \in DOMAIN streams[r] :
        streams[r][i].events \in RegisteredFor(streams[r][i].process)

====
